---------------------------- MODULE Spec2Model ----------------------------
(***************************************************************************)
(* Verification model of the transcript annotation and protocol synthesis  *)
(* pipeline of the Protocol Maker client (SpeakerMapping.tsx,              *)
(* ProtocolViewer.tsx, Dashboard.tsx).                                     *)
(*                                                                         *)
(* Text is modelled as a sequence of tokens.  A token is a maximal piece   *)
(* of text the regular expressions of the code treat as a unit: a          *)
(* bracketed timestamp, one whitespace character, a word, a colon.         *)
(* Strings of the source that are not ASCII are transliterated:            *)
(*   "Spiker" is the Cyrillic word the code writes in front of a speaker   *)
(*   token, "spiker" the same word in lower case, "N/D" the Cyrillic       *)
(*   placeholder for an unknown value.                                     *)
(***************************************************************************)
EXTENDS Integers, Sequences, FiniteSets, TLC

VARIABLES
    comp,              \* the component a behaviour exercises
    transcript,        \* SpeakerMapping prop: the transcript, a token sequence
    mapping,           \* SpeakerMapping state: ordered entries <<label, name>>
    mappedTranscript,  \* result of applyMappingToTranscript(transcript), or NotYet
    diarization,       \* SpeakerMapping prop: the diarization payload, a JS value
    labelsResult,      \* what the speakerLabels memo evaluates to, or NoLabels
    participants,      \* SpeakerMapping state: the roster, records [id, name]
    submitting,        \* SpeakerMapping state
    error,             \* SpeakerMapping state: the message shown, "" when none
    requests,          \* the calls of generateProtocolFromTranscript in flight
    nextId,            \* the id Date.now().toString() gives the next participant
    generated,         \* onGenerated was called: the parent leaves the step
    storeCount,        \* number of protocols the store holds (GET /protocols)
    upstreamNumber,    \* protocol_number of the upstream payload, a JS value
    protocolNumber,    \* ProtocolViewer state
    mountLookup,       \* the getProtocols call of the effect: pending, done, failed
    isDownloading,     \* ProtocolViewer state: generateDocument awaits getProtocols
    lookups,           \* number of getProtocols calls made so far
    downloads,         \* number of handleDownload calls made so far
    returned,          \* the counts getProtocols has returned so far
    documents,         \* the documents assembled, in order
    protocolData,      \* Dashboard: the response handed to handleProtocolGenerated
    dashParticipants,  \* Dashboard state participants
    protocolResult,    \* Dashboard state, the prop protocol of ProtocolViewer
    built,             \* what buildProtocolJson(protocol) returns, or NotBuilt
    docStep,           \* ProtocolViewer: "none", "constructed", or "mounted" once the effect ran
    editedDecisions,   \* ProtocolViewer state: the text of the decisions buffer
    reviewed,          \* what generateDocument assembled: the reviewed paragraphs, the
                       \* assignment rows, the date line and the date of the signature
    blurs,             \* number of times the editable decisions block lost the focus
    content,           \* the argument of formatProtocolContent, a JS value
    formatted,         \* what formatProtocolContent(content) returns, or NotFormatted
    inlineText,        \* the argument of formatInlineMarkdown, a sequence of characters
    inline,            \* what formatInlineMarkdown computed for it, or NotInlined
    editedDate,        \* ProtocolViewer state: the text of the date block
    editedAssignments, \* ProtocolViewer state: the rows of the assignments table
    timeZone,          \* where the browser is: "west" of UTC, or "east": at UTC or east of it
    storage,           \* localStorage: the item permanent_participants, a JSON text or null
    saved,             \* the list the last savePermanentParticipants call was given, or NotSaved
    loaded,            \* what the last loadPermanentParticipants call returned, or NotLoaded
    currentPage,       \* Dashboard state: the page shown
    selectedProtocolType, \* Dashboard state: the protocol type, or Null
    uploadedFile,      \* Dashboard state: the file handed over by FileUploader, or Null
    uploader,          \* the state of the mounted FileUploader, or Unmounted
    uploads,           \* the handleUpload invocations awaiting submitProtocol
    speakerMapping,    \* the state of the mounted SpeakerMapping, or Unmounted
    generations,       \* the onGenerate invocations awaiting the generation request
    settled            \* the last handleUpload invocation that ended, or NotSettled

annotVars == <<mappedTranscript>>
labelVars == <<diarization, labelsResult>>
formVars == <<participants, submitting, error, requests, nextId, generated>>
vars == <<comp, transcript, mapping, mappedTranscript, diarization, labelsResult,
          participants, submitting, error, requests, nextId, generated,
          storeCount, upstreamNumber, protocolNumber, mountLookup, isDownloading,
          lookups, downloads, returned, documents,
          protocolData, dashParticipants, protocolResult, built,
          docStep, editedDecisions, reviewed, blurs, content, formatted,
          inlineText, inline,
          editedDate, editedAssignments, timeZone,
          storage, saved, loaded,
          currentPage, selectedProtocolType, uploadedFile, uploader, uploads, speakerMapping, generations, settled>>
dashVars == <<currentPage, selectedProtocolType, uploadedFile, uploader, uploads, speakerMapping, generations, settled>>
storageVars == <<storage, saved, loaded>>
sheetVars == <<editedDate, editedAssignments, timeZone>>
inlineVars == <<inlineText, inline>>
formatVars == <<content, formatted>>
docVars == <<docStep, editedDecisions, reviewed, blurs>>
normVars == <<protocolData, dashParticipants, protocolResult, built>>
viewerVars == <<storeCount, upstreamNumber, protocolNumber, mountLookup, isDownloading,
                lookups, downloads, returned, documents>>

NotYet == "not-computed"
\* the speakerLabels memo before its first evaluation
NoLabels == [done |-> FALSE, threw |-> FALSE, labels |-> <<>>]
\* the SpeakerMapping form when a behaviour does not exercise it
FormIdle ==
    /\ participants = <<>>
    /\ submitting = FALSE
    /\ error = ""
    /\ requests = <<>>
    /\ nextId = 1
    /\ generated = FALSE
\* the ProtocolViewer when a behaviour does not exercise it
ViewerIdle ==
    /\ storeCount = 0
    /\ upstreamNumber = [t |-> "undefined"]
    /\ protocolNumber = [t |-> "undefined"]
    /\ mountLookup = "none"
    /\ isDownloading = FALSE
    /\ lookups = 0
    /\ downloads = 0
    /\ returned = {}
    /\ documents = <<>>
NotBuilt == [t |-> "not-built"]
\* the normalizer when a behaviour does not exercise it
NormIdle ==
    /\ protocolData = [t |-> "undefined"]
    /\ dashParticipants = <<>>
    /\ protocolResult = [t |-> "null"]
    /\ built = NotBuilt

\* no document assembled yet
NoDocument ==
    [done |-> FALSE, threw |-> FALSE, paragraphs |-> <<>>, rows |-> <<>>,
     dateLine |-> <<>>, signature |-> <<>>]
\* the document assembly when a behaviour does not exercise it
DocIdle ==
    /\ docStep = "none"
    /\ editedDecisions = <<>>
    /\ reviewed = NoDocument
    /\ blurs = 0

NotFormatted == [t |-> "not-formatted"]
\* the formatter when a behaviour does not exercise it
FormatIdle ==
    /\ content = [t |-> "undefined"]
    /\ formatted = NotFormatted

NotInlined == [t |-> "not-inlined"]
\* the inline formatter when a behaviour does not exercise it
InlineIdle ==
    /\ inlineText = <<>>
    /\ inline = NotInlined

\* the date and the assignments of the document when a behaviour does not exercise them
SheetIdle ==
    /\ editedDate = <<>>
    /\ editedAssignments = <<>>
    /\ timeZone = "east"

NotSaved == [t |-> "not-saved"]
NotLoaded == [t |-> "not-loaded"]
\* the storage of permanent participants when a behaviour does not exercise it
StorageIdle ==
    /\ storage = [t |-> "null"]
    /\ saved = NotSaved
    /\ loaded = NotLoaded

\* the Dashboard page flow is not exercised
DashIdle ==
    /\ currentPage = "protocol-list"
    /\ selectedProtocolType = [t |-> "null"]
    /\ uploadedFile = [t |-> "null"]
    /\ uploader = [mounted |-> FALSE]
    /\ uploads = <<>>
    /\ speakerMapping = [mounted |-> FALSE]
    /\ generations = <<>>
    /\ settled = [t |-> "none"]

----------------------------------------------------------------------------
(* JavaScript values: a record tagged with its type *)

Undefined == [t |-> "undefined"]
Null      == [t |-> "null"]
Str(s)    == [t |-> "string", s |-> s]        \* s: a token sequence
Num(n)    == [t |-> "number", n |-> n]
Arr(a)    == [t |-> "array", items |-> a]
Bool(b)   == [t |-> "boolean", b |-> b]

IsNullish(v) == v.t \in {"undefined", "null"}

\* the transcript and diarization props when a behaviour does not exercise them
TextIdle ==
    /\ transcript = <<>>
    /\ mapping = <<>>
    /\ mappedTranscript = NotYet
    /\ diarization = Undefined
    /\ labelsResult = NoLabels

\* ToBoolean
Truthy(v) ==
    CASE v.t = "undefined" -> FALSE
      [] v.t = "null"      -> FALSE
      [] v.t = "string"    -> v.s # <<>>
      [] v.t = "number"    -> v.n # 0
      [] v.t = "boolean"   -> v.b
      [] OTHER             -> TRUE

\* a || b
Or(a, b) == IF Truthy(a) THEN a ELSE b

\* String(v) of a string or a small number, as tokens
ToStr(v) ==
    CASE v.t = "string" -> v.s
      [] v.t = "number" -> IF v.n = 0 THEN <<"0">> ELSE <<"1">>
      [] OTHER          -> <<v.t>>

----------------------------------------------------------------------------
(* Tokens *)

TS1 == "[00:01 - 00:05]"
TS2 == "[00:06 - 00:09]"
\* a bracket that \[\d{2}:\d{2}\s*-\s*\d{2}:\d{2}\] does not match
BadTS == "[0:07 - 0:09]"

IsTimestamp(t) == t \in {TS1, TS2}
\* \s of the regular expressions: a space or a line break
IsWs(t) == t \in {" ", "\n"}

\* Flag "i": two tokens match when they are equal up to letter case.
Fold(t) ==
    CASE t = "a" -> "A"
      [] t = "b" -> "B"
      [] t = "spiker" -> "Spiker"
      [] t = "ivan" -> "Ivan"
      [] OTHER -> t

\* String.prototype.trim on a token sequence
RECURSIVE TrimLeft(_)
TrimLeft(s) == IF s # <<>> /\ IsWs(Head(s)) THEN TrimLeft(Tail(s)) ELSE s

RECURSIVE TrimRight(_)
TrimRight(s) ==
    IF s # <<>> /\ IsWs(s[Len(s)]) THEN TrimRight(SubSeq(s, 1, Len(s) - 1)) ELSE s

Trim(s) == TrimRight(TrimLeft(s))

\* index of the first token at or after i that is not whitespace (Len(s)+1 if none)
RECURSIVE SkipWs(_, _)
SkipWs(s, i) == IF i <= Len(s) /\ IsWs(s[i]) THEN SkipWs(s, i + 1) ELSE i

\* the escaped literal lit occurs in s at i (compared under flag "i")
MatchLit(s, i, lit) ==
    /\ i + Len(lit) - 1 <= Len(s)
    /\ \A k \in 1..Len(lit) : Fold(s[i + k - 1]) = Fold(lit[k])

----------------------------------------------------------------------------
(* applyMappingToTranscript *)

\* speakerLabel.replace(/^Spiker\s+/i, "").trim()
speakerId(speakerLabel) ==
    IF Len(speakerLabel) >= 2 /\ Fold(speakerLabel[1]) = "Spiker" /\ IsWs(speakerLabel[2])
    THEN Trim(SubSeq(speakerLabel, SkipWs(speakerLabel, 2), Len(speakerLabel)))
    ELSE Trim(speakerLabel)

\* The designation part of the four patterns, tried at index j of s:
\*   canonical:  Spiker\s+<id>\s*:      raw:  <label>\s*:
\* The result is the index of the colon that ends the match, 0 when there is none.
MatchBody(s, j, canonical, lit) ==
    LET k == IF canonical
             THEN IF j + 1 <= Len(s) /\ Fold(s[j]) = "Spiker" /\ IsWs(s[j + 1])
                  THEN SkipWs(s, j + 1)
                  ELSE 0
             ELSE j
    IN  IF k = 0 \/ ~MatchLit(s, k, lit) THEN 0
        ELSE LET m == SkipWs(s, k + Len(lit))
             IN  IF m <= Len(s) /\ s[m] = ":" THEN m ELSE 0

\* A pattern is [ts |-> BOOLEAN, canonical |-> BOOLEAN, lit |-> tokens]:
\*   ts:   (\[\d{2}:\d{2}\s*-\s*\d{2}:\d{2}\]\s*) in front of the designation
\*   ~ts:  (^|\n)\s* in front of the designation
\* MatchAt gives [end |-> index of the last matched token (0: no match),
\*                bodyAt |-> index where the designation part starts].
MatchAt(s, i, pat) ==
    IF pat.ts
    THEN IF i <= Len(s) /\ IsTimestamp(s[i])
         THEN LET j == SkipWs(s, i + 1)
              IN  [end |-> MatchBody(s, j, pat.canonical, pat.lit), bodyAt |-> j]
         ELSE [end |-> 0, bodyAt |-> 0]
    ELSE IF i = 1 \/ (i <= Len(s) /\ s[i] = "\n")
         THEN LET viaNewline == LET j == SkipWs(s, i + 1)
                                IN  [end |-> MatchBody(s, j, pat.canonical, pat.lit),
                                     bodyAt |-> j]
                  viaStart   == LET j == SkipWs(s, i)
                                IN  [end |-> MatchBody(s, j, pat.canonical, pat.lit),
                                     bodyAt |-> j]
              IN  IF i = 1 /\ viaStart.end # 0 THEN viaStart
                  ELSE IF i <= Len(s) /\ s[i] = "\n" THEN viaNewline
                  ELSE [end |-> 0, bodyAt |-> 0]
         ELSE [end |-> 0, bodyAt |-> 0]

\* match.replace(new RegExp(`Spiker\s+<id>|<label>`, "gi"), participantName):
\* every occurrence, scanning from the left, the first alternative preferred.
RECURSIVE InnerReplace(_, _, _, _, _)
InnerReplace(m, i, id, label, participantName) ==
    IF i > Len(m) THEN <<>>
    ELSE LET alt1 == IF i + 1 <= Len(m) /\ Fold(m[i]) = "Spiker" /\ IsWs(m[i + 1])
                        /\ MatchLit(m, SkipWs(m, i + 1), id)
                     THEN SkipWs(m, i + 1) + Len(id) - 1
                     ELSE 0
             alt2 == IF MatchLit(m, i, label) THEN i + Len(label) - 1 ELSE 0
             e    == IF alt1 # 0 THEN alt1 ELSE alt2
         IN  IF e >= i
             THEN participantName \o InnerReplace(m, e + 1, id, label, participantName)
             ELSE <<m[i]>> \o InnerReplace(m, i + 1, id, label, participantName)

\* the callback without `${prefix}`: the timestamp is not written back
ReplacementNoPrefix(s, i, r, pat, id, label, participantName) ==
    IF pat.ts
    THEN participantName \o <<":">>
    ELSE InnerReplace(SubSeq(s, i, r.end), 1, id, label, participantName)

\* the callback when it writes the whole match back behind the name
ReplacementEcho(s, i, r, pat, id, label, participantName) ==
    IF pat.ts
    THEN SubSeq(s, i, r.bodyAt - 1) \o participantName \o <<":">> \o SubSeq(s, i, r.end)
    ELSE InnerReplace(SubSeq(s, i, r.end), 1, id, label, participantName)

\* The replacement callback of lines 287-294.
\* prefix is capture group 1: the timestamp with its trailing whitespace, or
\* "" / "\n" for the line-start patterns (whose trim() is empty).
Replacement(s, i, r, pat, id, label, participantName) ==
    IF pat.ts
    THEN SubSeq(s, i, r.bodyAt - 1) \o participantName \o <<":">>
    ELSE InnerReplace(SubSeq(s, i, r.end), 1, id, label, participantName)

\* result.replace(pattern, callback) with flag "g"
RECURSIVE ReplaceAll(_, _, _, _, _, _)
ReplaceAll(s, i, pat, id, label, participantName) ==
    IF i > Len(s) THEN <<>>
    ELSE LET r == MatchAt(s, i, pat)
         IN  IF r.end # 0
             THEN Replacement(s, i, r, pat, id, label, participantName)
                      \o ReplaceAll(s, r.end + 1, pat, id, label, participantName)
             ELSE <<s[i]>> \o ReplaceAll(s, i + 1, pat, id, label, participantName)

\* the array `patterns` of lines 275-284, in its order
patterns(speakerLabel) ==
    << [ts |-> TRUE,  canonical |-> TRUE,  lit |-> speakerId(speakerLabel)],
       [ts |-> TRUE,  canonical |-> FALSE, lit |-> speakerLabel],
       [ts |-> FALSE, canonical |-> TRUE,  lit |-> speakerId(speakerLabel)],
       [ts |-> FALSE, canonical |-> FALSE, lit |-> speakerLabel] >>

\* for (const pattern of patterns) result = result.replace(pattern, ...)
RECURSIVE ApplyPatterns(_, _, _, _)
ApplyPatterns(result, k, speakerLabel, participantName) ==
    IF k > Len(patterns(speakerLabel)) THEN result
    ELSE ApplyPatterns(
             ReplaceAll(result, 1, patterns(speakerLabel)[k],
                        speakerId(speakerLabel), speakerLabel, participantName),
             k + 1, speakerLabel, participantName)

\* for (const [speakerLabel, participantName] of Object.entries(mapping))
RECURSIVE ApplyEntries(_, _, _)
ApplyEntries(result, entries, k) ==
    IF k > Len(entries) THEN result
    ELSE LET speakerLabel    == entries[k][1]
             participantName == entries[k][2]
         IN  IF Trim(participantName) = <<>>
             THEN ApplyEntries(result, entries, k + 1)
             ELSE ApplyEntries(ApplyPatterns(result, 1, speakerLabel, participantName),
                               entries, k + 1)

applyMappingToTranscript(text, entries) == ApplyEntries(text, entries, 1)

----------------------------------------------------------------------------
(* Inputs of applyMappingToTranscript *)

MaxLines == 2
MaxEntries == 2

LabelA == <<"Spiker", " ", "A">>

\* Lines of a transcript as the transcription service and the operator write them.
Lines ==
    { <<TS1, " ", "Spiker", " ", "A", ":", " ", "hello">>,
      <<TS2, " ", "spiker", " ", "a", " ", ":", " ", "hello">>,
      <<TS1, " ", "Ivan", ":", " ", "hello">>,
      <<TS2, "Petr", ":", " ", "hello">>,
      <<" ", "Ivan", " ", ":", " ", "hello">>,
      <<BadTS, " ", "Spiker", " ", "A", ":", " ", "hello">> }

\* the speaker labels that can be keys of the mapping, and the names of participants
Labels == { LabelA, <<"Ivan">>, <<"Petr">> }
\* (a name of spaces only is blank, as the empty name is)
Names  == { <<" ">>, <<"Ivan">>, <<"Petr">> }

RECURSIVE Join(_)
Join(ls) ==
    IF ls = <<>> THEN <<>>
    ELSE IF Len(ls) = 1 THEN ls[1]
    ELSE ls[1] \o <<"\n">> \o Join(Tail(ls))

SeqsUpTo(S, n) == UNION { [1..k -> S] : k \in 0..n }

Transcripts == { Join(ls) : ls \in SeqsUpTo(Lines, MaxLines) \ {<<>>} }

\* Object.entries(mapping): the keys are distinct and keep their insertion order
Mappings ==
    { m \in SeqsUpTo(Labels \X Names, MaxEntries) :
          \A i, j \in 1..Len(m) : i # j => m[i][1] # m[j][1] }

----------------------------------------------------------------------------
(* Specification of the annotator: the inputs are drawn, then the function  *)
(* is applied as onGenerate and the preview do (lines 301-303, 319).        *)

InitAnnotate ==
    /\ comp = "annotate"
    /\ transcript \in Transcripts
    /\ mapping \in Mappings
    /\ mappedTranscript = NotYet
    /\ diarization = Undefined
    /\ labelsResult = NoLabels
    /\ FormIdle
    /\ ViewerIdle
    /\ NormIdle
    /\ DocIdle
    /\ FormatIdle
    /\ InlineIdle
    /\ SheetIdle
    /\ StorageIdle
    /\ DashIdle

ApplyMapping ==
    /\ comp = "annotate"
    /\ mappedTranscript = NotYet
    /\ mappedTranscript' = applyMappingToTranscript(transcript, mapping)
    /\ UNCHANGED <<comp, transcript, mapping>>
    /\ UNCHANGED labelVars
    /\ UNCHANGED formVars
    /\ UNCHANGED viewerVars
    /\ UNCHANGED normVars
    /\ UNCHANGED docVars
    /\ UNCHANGED formatVars
    /\ UNCHANGED inlineVars
    /\ UNCHANGED sheetVars
    /\ UNCHANGED storageVars
    /\ UNCHANGED dashVars

NextAnnotate == ApplyMapping

SpecAnnotate == InitAnnotate /\ [][NextAnnotate]_vars

----------------------------------------------------------------------------
(* Reading a transcript line by line: the timestamp prefix, the designation *)
(* and the text after the colon.  Used to state the claims only.            *)

RECURSIVE SplitLines(_)
SplitLines(text) ==
    IF \E i \in 1..Len(text) : text[i] = "\n"
    THEN LET i == CHOOSE i \in 1..Len(text) :
                      text[i] = "\n" /\ \A j \in 1..(i - 1) : text[j] # "\n"
         IN  <<SubSeq(text, 1, i - 1)>> \o SplitLines(SubSeq(text, i + 1, Len(text)))
    ELSE <<text>>

IsBracket(t) == t \in {TS1, TS2, BadTS}

\* index of the first token of the designation of a line
DesigAt(line) == IF line # <<>> /\ IsBracket(line[1]) THEN SkipWs(line, 2) ELSE SkipWs(line, 1)

\* index of the colon that ends the designation of a line, 0 when it has none
ColonAt(line) ==
    IF \E c \in DesigAt(line)..Len(line) : line[c] = ":"
    THEN CHOOSE c \in DesigAt(line)..Len(line) :
             line[c] = ":" /\ \A d \in DesigAt(line)..(c - 1) : line[d] # ":"
    ELSE 0

LinePrefix(line) == SubSeq(line, 1, DesigAt(line) - 1)
LineDesignation(line) == TrimRight(SubSeq(line, DesigAt(line), ColonAt(line) - 1))
LineText(line) == SubSeq(line, ColonAt(line) + 1, Len(line))
\* the whitespace between the designation and its colon
LineGap(line) ==
    SubSeq(line, DesigAt(line) + Len(LineDesignation(line)), ColonAt(line) - 1)

HasTimestamp(line) == line # <<>> /\ IsTimestamp(line[1])

\* the entries applyMappingToTranscript does not skip
IsBlank(name) == Trim(name) = <<>>
ActiveEntries == { k \in 1..Len(mapping) : ~IsBlank(mapping[k][2]) }

\* "Spiker <token>" written for a label
Canonical(label) == <<"Spiker", " ">> \o speakerId(label)

\* the designation d names the label exactly, raw or in canonical form
Designates(d, label) == d = label \/ d = Canonical(label)

SameFold(a, b) == Len(a) = Len(b) /\ \A k \in 1..Len(a) : Fold(a[k]) = Fold(b[k])

\* the designation d is one the patterns of the label match (flag "i", \s+)
MatchedBy(d, label) ==
    \/ SameFold(d, label)
    \/ /\ Len(d) >= 2
       /\ Fold(d[1]) = "Spiker"
       /\ IsWs(d[2])
       /\ SameFold(SubSeq(d, SkipWs(d, 2), Len(d)), speakerId(label))

Applied == comp = "annotate" /\ mappedTranscript # NotYet

\* C1 (as claimed): for every mapping entry label -> name with a non-blank name,
\* every line "[mm:ss - mm:ss] <label>:" of the transcript (the label raw or in
\* its canonical form) is "[mm:ss - mm:ss] <name>:" in the result, the timestamp
\* prefix and the text after the colon as they were.
C1_EveryOccurrenceReplacedByItsName ==
    Applied =>
        LET in  == SplitLines(transcript)
            out == SplitLines(mappedTranscript)
        IN  /\ Len(out) = Len(in)
            /\ \A e \in ActiveEntries : \A k \in 1..Len(in) :
                   ( /\ HasTimestamp(in[k])
                     /\ ColonAt(in[k]) # 0
                     /\ Designates(LineDesignation(in[k]), mapping[e][1]) )
                   => out[k] = LinePrefix(in[k]) \o mapping[e][2] \o <<":">>
                                   \o LineText(in[k])

\* C4: the result differs from the transcript only inside matched designation
\* spans: a line is changed only when its designation is one an entry with a
\* non-blank name matches, and then its prefix (timestamp and whitespace) and
\* the text after the colon are the same tokens as in the transcript; with no
\* such entry the transcript is returned unchanged.
C4_FrameOutsideDesignation ==
    Applied =>
        LET in  == SplitLines(transcript)
            out == SplitLines(mappedTranscript)
        IN  /\ Len(out) = Len(in)
            /\ (ActiveEntries = {}) => mappedTranscript = transcript
            /\ \A k \in 1..Len(in) :
                   \/ out[k] = in[k]
                   \/ /\ ColonAt(in[k]) # 0
                      /\ \E e \in ActiveEntries :
                             MatchedBy(LineDesignation(in[k]), mapping[e][1])
                      /\ \E e \in ActiveEntries : \E gap \in {<<>>, LineGap(in[k])} :
                             out[k] = LinePrefix(in[k]) \o mapping[e][2] \o gap
                                          \o <<":">> \o LineText(in[k])

\* a line was rewritten behind its timestamp and another line was left alone
C4_Witness ==
    /\ Applied
    /\ ActiveEntries # {}
    /\ LET in  == SplitLines(transcript)
           out == SplitLines(mappedTranscript)
       IN  /\ Len(in) = 2 /\ Len(out) = 2
           /\ HasTimestamp(in[1])
           /\ out[1] # in[1]
           /\ LinePrefix(out[1]) = LinePrefix(in[1])
           /\ out[2] = in[2]
           /\ ColonAt(in[2]) # 0

----------------------------------------------------------------------------
(* speakerLabels (useMemo, lines 147-227) *)

\* the diarization payload and one of its segments, as objects
Payload(utterances, segments, dia) ==
    [t |-> "payload", utterances |-> utterances, segments |-> segments, diarization |-> dia]
Segment(speaker, spk, label, speaker_label) ==
    [t |-> "segment", speaker |-> speaker, spk |-> spk, label |-> label,
     speaker_label |-> speaker_label]

\* diarization?.utterances || diarization?.segments || diarization?.diarization || []
segments(d) ==
    IF d.t = "payload"
    THEN Or(Or(Or(d.utterances, d.segments), d.diarization), Arr(<<>>))
    ELSE Arr(<<>>)

\* /^[A-Z0-9]+$/.test(id): one word of upper-case letters and digits
UpperAlnumTokens == {"A", "B", "0", "1"}
IsUpperAlnum(id) == Len(id) = 1 /\ id[1] \in UpperAlnumTokens

\* labels.add(l) of a Set, which keeps the order of insertion
Add(labels, l) == IF \E k \in 1..Len(labels) : labels[k] = l THEN labels ELSE Append(labels, l)

\* lines 162-170: the label of one segment added to the set
\* const s = seg.speaker || seg.spk || seg.label || seg.speaker_label
AddSegment(labels, seg) ==
    LET s == Or(Or(Or(seg.speaker, seg.spk), seg.label), seg.speaker_label)
    IN  IF IsNullish(s) THEN labels
        ELSE LET id == Trim(ToStr(s))
             IN  Add(labels, IF IsUpperAlnum(id) THEN <<"Spiker", " ">> \o id ELSE id)

\* for (const seg of segments): reading a property of null throws a TypeError
RECURSIVE ScanSegments(_, _, _)
ScanSegments(segs, k, labels) ==
    IF k > Len(segs) THEN [threw |-> FALSE, labels |-> labels]
    ELSE IF IsNullish(segs[k]) THEN [threw |-> TRUE, labels |-> labels]
    ELSE ScanSegments(segs, k + 1, AddSegment(labels, segs[k]))

\* lines 159-174
FromDiarization(d) ==
    IF segments(d).t = "array" /\ Len(segments(d).items) > 0
    THEN ScanSegments(segments(d).items, 1, <<>>)
    ELSE [threw |-> FALSE, labels |-> <<>>]

\* the part of a bracket in front of its first colon
BeforeColon(t) == IF t = BadTS THEN "[0" ELSE "[00"
HasColon(t) == t = ":" \/ IsBracket(t)

\* index of the first token at or after j that holds a colon, 0 when there is none
FirstColon(s, j) ==
    IF \E c \in j..Len(s) : HasColon(s[c])
    THEN CHOOSE c \in j..Len(s) : HasColon(s[c]) /\ \A d \in j..(c - 1) : ~HasColon(s[d])
    ELSE 0

\* lines 180-197: the matches of
\*   /\[(\d{2}:\d{2})\s*-\s*(\d{2}:\d{2})\]\s*(?:Spiker\s+([A-Z0-9]+)|([^:]+)):/g
\* (no flag "i"), each giving match[3] || match[4]
RECURSIVE ScanTimestamped(_, _, _)
ScanTimestamped(s, i, labels) ==
    IF i > Len(s) THEN labels
    ELSE IF ~IsTimestamp(s[i]) THEN ScanTimestamped(s, i + 1, labels)
    ELSE
      LET j    == SkipWs(s, i + 1)
          k    == SkipWs(s, j + 1)
          alt1 == /\ j + 1 <= Len(s) /\ s[j] = "Spiker" /\ IsWs(s[j + 1])
                  /\ k + 1 <= Len(s) /\ s[k] \in UpperAlnumTokens /\ s[k + 1] = ":"
          c    == FirstColon(s, j)
          \* [^:]+ needs one character: \s* gives its last one back
          from == IF c > j THEN j ELSE IF j > i + 1 THEN j - 1 ELSE 0
          g4   == IF s[c] = ":" THEN SubSeq(s, from, c - 1)
                  ELSE SubSeq(s, from, c - 1) \o <<BeforeColon(s[c])>>
          add(g) == IF IsUpperAlnum(Trim(g)) THEN <<"Spiker", " ">> \o Trim(g) ELSE Trim(g)
      IN  IF alt1 THEN ScanTimestamped(s, k + 2, Add(labels, add(<<s[k]>>)))
          ELSE IF c # 0 /\ from # 0 THEN ScanTimestamped(s, c + 1, Add(labels, add(g4)))
          ELSE ScanTimestamped(s, i + 1, labels)

\* the part of a word [A-Z0-9]+ matches under flag "i" ("" when it matches nothing):
\* Latin letters and digits only
AlnumPrefix(t) ==
    CASE t \in {"A", "B", "a", "b", "0", "1", "hello"} -> t
      [] t \in {"SPEAKER_01", "speaker_01"} -> IF t = "SPEAKER_01" THEN "SPEAKER" ELSE "speaker"
      [] OTHER -> ""

\* lines 204-205: /Spiker\s+([A-Z0-9]+)/gi and /Speaker\s+([A-Z0-9]+)/gi; label = match[0].trim()
RECURSIVE ScanWord(_, _, _, _)
ScanWord(s, i, word, labels) ==
    IF i > Len(s) THEN labels
    ELSE LET k == SkipWs(s, i + 1)
         IN  IF /\ i + 1 <= Len(s) /\ Fold(s[i]) = word /\ IsWs(s[i + 1])
                /\ k <= Len(s) /\ AlnumPrefix(s[k]) # ""
             THEN ScanWord(s, k + 1, word,
                           Add(labels, Trim(SubSeq(s, i, k - 1) \o <<AlnumPrefix(s[k])>>)))
             ELSE ScanWord(s, i + 1, word, labels)

\* line 206: /SPEAKER_(\d{2})/gi
RECURSIVE ScanChannel(_, _, _)
ScanChannel(s, i, labels) ==
    IF i > Len(s) THEN labels
    ELSE IF s[i] \in {"SPEAKER_01", "speaker_01"}
         THEN ScanChannel(s, i + 1, Add(labels, <<s[i]>>))
         ELSE ScanChannel(s, i + 1, labels)

\* lines 203-215: simplePatterns, in their order
FromSimplePatterns(s) ==
    ScanChannel(s, 1, ScanWord(s, 1, "Speaker", ScanWord(s, 1, "Spiker", <<>>)))

\* Array.prototype.sort() without a comparator: by UTF-16 code units.
\* CodeUnitOrder lists the tokens by the code units of the text they stand for
\* ("Ivan", "Petr", "Spiker", "ivan", "spiker" are Cyrillic words, "[00" and
\* the timestamps start with "[", U+005B).
CodeUnitOrder ==
    << "\n", " ", "0", "1", ":", "A", "B", "SPEAKER", "SPEAKER_01", "Speaker",
       "[0", "[00", BadTS, TS1, TS2,
       "a", "b", "hello", "speaker", "speaker_01",
       "Ivan", "Petr", "Spiker", "ivan", "spiker" >>

Rank(t) == CHOOSE r \in 1..Len(CodeUnitOrder) : CodeUnitOrder[r] = t

RECURSIVE LabelLess(_, _)
LabelLess(a, b) ==
    IF a = <<>> THEN b # <<>>
    ELSE IF b = <<>> THEN FALSE
    ELSE IF a[1] = b[1] THEN LabelLess(Tail(a), Tail(b))
    ELSE Rank(a[1]) < Rank(b[1])

\* insertion of l into the sorted sequence sorted
RECURSIVE Insert(_, _)
Insert(sorted, l) ==
    IF sorted = <<>> THEN <<l>>
    ELSE IF LabelLess(l, sorted[1]) THEN <<l>> \o sorted
    ELSE <<sorted[1]>> \o Insert(Tail(sorted), l)

RECURSIVE Sort(_)
Sort(labels) == IF labels = <<>> THEN <<>> ELSE Insert(Sort(Tail(labels)), labels[1])

LabelB == <<"Spiker", " ", "B">>

\* lines 147-227: the value of the memo, or the TypeError thrown while computing it
speakerLabels(d, text) ==
    LET tier1 == FromDiarization(d)
        tier2 == IF tier1.labels = <<>> THEN ScanTimestamped(text, 1, <<>>) ELSE tier1.labels
        tier3 == IF tier2 = <<>> THEN FromSimplePatterns(text) ELSE tier2
        final == IF tier3 = <<>> THEN <<LabelA, LabelB>> ELSE tier3
    IN  IF tier1.threw THEN [done |-> TRUE, threw |-> TRUE, labels |-> <<>>]
        ELSE [done |-> TRUE, threw |-> FALSE, labels |-> Sort(final)]

----------------------------------------------------------------------------
(* Inputs of speakerLabels *)

MaxSegments == 2

\* segments as transcription services write them, and malformed ones
SegmentKinds ==
    { Segment(Str(<<"A">>), Undefined, Undefined, Undefined),
      Segment(Str(<<"B">>), Undefined, Undefined, Undefined),
      Segment(Str(<<"a">>), Undefined, Undefined, Undefined),
      Segment(Undefined, Str(<<" ", "B", " ">>), Undefined, Undefined),
      Segment(Undefined, Undefined, Num(1), Undefined),
      Segment(Num(0), Undefined, Undefined, Str(<<"SPEAKER_01">>)),
      Segment(Num(0), Undefined, Undefined, Undefined),
      Segment(Str(<<>>), Undefined, Null, Null),
      Segment(Undefined, Undefined, Undefined, Num(0)),
      Null }

SegmentLists == SeqsUpTo(SegmentKinds, MaxSegments)

Diarizations ==
    {Undefined, Null}
    \cup { Payload(Arr(l), Undefined, Undefined) : l \in SegmentLists }
    \cup { Payload(Undefined, Arr(l), Undefined) : l \in SegmentLists }
    \cup { Payload(Undefined, Undefined, Arr(l)) : l \in SegmentLists }
    \cup { Payload(Arr(<<>>), Arr(l), Undefined) : l \in SegmentLists }
    \cup { Payload(Str(<<"hello">>), Arr(l), Undefined) : l \in SegmentLists }

\* lines without a timestamp, for the context-free patterns
PlainLines ==
    { <<"Speaker", " ", "A", ":", " ", "hello">>,
      <<"SPEAKER_01", ":", " ", "hello">>,
      <<"spiker", " ", " ", "a", ":", " ", "hello">>,
      <<"hello">> }

PlainTranscripts == { Join(ls) : ls \in SeqsUpTo(PlainLines, MaxLines) \ {<<>>} }

\* a transcript in the documented format, read when the diarization gives no label
T0 == Join(<< <<TS1, " ", "Spiker", " ", "B", ":", " ", "hello">>,
              <<TS2, " ", "Ivan", ":", " ", "hello">> >>)

NoDiarization == {Undefined, Null, Payload(Undefined, Undefined, Undefined)}

----------------------------------------------------------------------------
(* Specification of the label extractor *)

InitLabels ==
    /\ comp = "labels"
    /\ \/ diarization \in Diarizations /\ transcript \in {T0, <<"hello">>}
       \/ diarization \in NoDiarization /\ transcript \in Transcripts \cup PlainTranscripts
    /\ labelsResult = NoLabels
    /\ mapping = <<>>
    /\ mappedTranscript = NotYet
    /\ FormIdle
    /\ ViewerIdle
    /\ NormIdle
    /\ DocIdle
    /\ FormatIdle
    /\ InlineIdle
    /\ SheetIdle
    /\ StorageIdle
    /\ DashIdle

ExtractLabels ==
    /\ comp = "labels"
    /\ labelsResult = NoLabels
    /\ labelsResult' = speakerLabels(diarization, transcript)
    /\ UNCHANGED <<comp, transcript, diarization, mapping>>
    /\ UNCHANGED annotVars
    /\ UNCHANGED formVars
    /\ UNCHANGED viewerVars
    /\ UNCHANGED normVars
    /\ UNCHANGED docVars
    /\ UNCHANGED formatVars
    /\ UNCHANGED inlineVars
    /\ UNCHANGED sheetVars
    /\ UNCHANGED storageVars
    /\ UNCHANGED dashVars

NextLabels == ExtractLabels

SpecLabels == InitLabels /\ [][NextLabels]_vars

----------------------------------------------------------------------------
(* Claims about speakerLabels *)

Extracted == labelsResult.done

\* no scan tier finds a label: the segments give none and no pattern matches
NoTierFinds ==
    /\ FromDiarization(diarization).labels = <<>>
    /\ ScanTimestamped(transcript, 1, <<>>) = <<>>
    /\ FromSimplePatterns(transcript) = <<>>

\* C3: for every diarization payload and every transcript speakerLabels computes
\* a list, and that list is not empty, has no label twice and is in ascending
\* order; when no scan tier finds a label it is the pair <<LabelA, LabelB>>.
C3_LabelsNeverEmptySortedDistinct ==
    Extracted =>
        LET l == labelsResult.labels
        IN  /\ ~labelsResult.threw
            /\ Len(l) >= 1
            /\ \A j, k \in 1..Len(l) : j < k => l[j] # l[k] /\ LabelLess(l[j], l[k])
            /\ NoTierFinds => l = <<LabelA, LabelB>>

----------------------------------------------------------------------------
(* The SpeakerMapping component: roster, mapping and the generation request *)

\* messages of onGenerate (lines 310, 315, 335, 338), transliterated
UnmappedMsg    == "Naznachte uchastnika dlya kazhdogo spikera pered generaciej."
EmptyRosterMsg == "Dobav'te hotya by odnogo uchastnika pered generaciej."
GenerationMsg  == "Oshibka generacii protokola"

Participant(id, name) == [id |-> id, name |-> name]

\* mapping[label], a string or undefined
Get(m, label) ==
    IF \E k \in 1..Len(m) : m[k][1] = label
    THEN Str(m[CHOOSE k \in 1..Len(m) : m[k][1] = label][2])
    ELSE Undefined

\* { ...prev, [speaker]: participantName }: a key keeps its place, a new one is last
Put(m, label, name) ==
    IF \E k \in 1..Len(m) : m[k][1] = label
    THEN [k \in 1..Len(m) |-> IF m[k][1] = label THEN <<label, name>> ELSE m[k]]
    ELSE Append(m, <<label, name>>)

HasName(ps, name) == \E k \in 1..Len(ps) : ps[k].name = name

\* lines 229-236: init[label] = participants[idx]?.name || ""
RECURSIVE InitialMapping(_, _, _)
InitialMapping(labels, ps, idx) ==
    IF idx > Len(labels) THEN <<>>
    ELSE <<  <<labels[idx], IF idx <= Len(ps) THEN ps[idx].name ELSE <<>> >>  >>
         \o InitialMapping(labels, ps, idx + 1)

\* keeps every entry, whatever the roster
KeepEntries(m, ps) == m

\* lines 239-252: the memo run on every change of participants, which deletes
\* the entries whose non-empty name is not the name of a participant
Cleanup(m, ps) ==
    LET Keep(e) == ~(e[2] # <<>> /\ ~HasName(ps, e[2]))
    IN  SelectSeq(m, Keep)

\* lines 256-258, with "some" in the place of "every"
allMappedSome ==
    /\ Len(labelsResult.labels) > 0
    /\ \E k \in 1..Len(labelsResult.labels) :
           Len(Trim(Or(Get(mapping, labelsResult.labels[k]), Str(<<>>)).s)) > 0

\* lines 256-258
allMapped ==
    /\ Len(labelsResult.labels) > 0
    /\ \A k \in 1..Len(labelsResult.labels) :
           Len(Trim(Or(Get(mapping, labelsResult.labels[k]), Str(<<>>)).s)) > 0

MaxParticipants == 3

\* the roster the component mounts with (lines 36-49)
InitialRosters ==
    { <<>>,
      <<Participant(1, <<"Ivan">>)>>,
      <<Participant(1, <<"Ivan">>), Participant(2, <<"Petr">>)>>,
      <<Participant(1, <<" ">>), Participant(2, <<"Petr">>)>> }

\* the props diarization and transcript the component mounts with
MountInputs ==
    { <<Undefined, <<"hello">> >>,
      <<Undefined, T0>>,
      <<Payload(Arr(<<Segment(Str(<<"A">>), Undefined, Undefined, Undefined)>>),
                Undefined, Undefined), T0>> }

InitMapping ==
    /\ comp = "mapping"
    /\ \E in \in MountInputs : diarization = in[1] /\ transcript = in[2]
    /\ labelsResult = speakerLabels(diarization, transcript)
    /\ participants \in InitialRosters
    /\ mapping = Cleanup(InitialMapping(labelsResult.labels, participants, 1), participants)
    /\ mappedTranscript = NotYet
    /\ submitting = FALSE
    /\ error = ""
    /\ requests = <<>>
    /\ nextId = Len(participants) + 1
    /\ generated = FALSE
    /\ ViewerIdle
    /\ NormIdle
    /\ DocIdle
    /\ FormatIdle
    /\ InlineIdle
    /\ SheetIdle
    /\ StorageIdle
    /\ DashIdle

Mounted == comp = "mapping" /\ ~generated

\* lines 98-122, with the dialog's editingId and formData.name as inputs
\* (editingId = 0 stands for null), followed by the memo of lines 239-252
HandleSave ==
    /\ Mounted
    /\ \E name \in Names, editingId \in 0..MaxParticipants :
        /\ Trim(name) # <<>>
        /\ IF editingId # 0
           THEN /\ \E k \in 1..Len(participants) : participants[k].id = editingId
                /\ participants' = [k \in 1..Len(participants) |->
                                       IF participants[k].id = editingId
                                       THEN Participant(editingId, name)
                                       ELSE participants[k]]
                /\ UNCHANGED nextId
           ELSE /\ nextId <= MaxParticipants
                /\ participants' = Append(participants, Participant(nextId, name))
                /\ nextId' = nextId + 1
    /\ mapping' = Cleanup(mapping, participants')
    /\ UNCHANGED <<comp, transcript, submitting, error, requests, generated>>
    /\ UNCHANGED annotVars
    /\ UNCHANGED labelVars
    /\ UNCHANGED viewerVars
    /\ UNCHANGED normVars
    /\ UNCHANGED docVars
    /\ UNCHANGED formatVars
    /\ UNCHANGED inlineVars
    /\ UNCHANGED sheetVars
    /\ UNCHANGED storageVars
    /\ UNCHANGED dashVars

\* lines 124-142 (the operator confirms), followed by the memo of lines 239-252
HandleDelete ==
    /\ Mounted
    /\ \E d \in 1..Len(participants) :
        LET deletedParticipant == participants[d]
            Others(p) == p.id # deletedParticipant.id
            Kept(e)   == e[2] # deletedParticipant.name
        IN  /\ participants' = SelectSeq(participants, Others)
            /\ mapping' = Cleanup(SelectSeq(mapping, Kept), participants')
    /\ UNCHANGED <<comp, transcript, submitting, error, requests, nextId, generated>>
    /\ UNCHANGED annotVars
    /\ UNCHANGED labelVars
    /\ UNCHANGED viewerVars
    /\ UNCHANGED normVars
    /\ UNCHANGED docVars
    /\ UNCHANGED formatVars
    /\ UNCHANGED inlineVars
    /\ UNCHANGED sheetVars
    /\ UNCHANGED storageVars
    /\ UNCHANGED dashVars

\* lines 260-262, called by the Select of a label with the name of a
\* participant (lines 587-600); the Select is disabled while submitting
HandleChange ==
    /\ Mounted
    /\ ~submitting
    /\ \E l \in 1..Len(labelsResult.labels), k \in 1..Len(participants) :
           mapping' = Put(mapping, labelsResult.labels[l], participants[k].name)
    /\ UNCHANGED <<comp, transcript>>
    /\ UNCHANGED annotVars
    /\ UNCHANGED labelVars
    /\ UNCHANGED formVars
    /\ UNCHANGED viewerVars
    /\ UNCHANGED normVars
    /\ UNCHANGED docVars
    /\ UNCHANGED formatVars
    /\ UNCHANGED inlineVars
    /\ UNCHANGED sheetVars
    /\ UNCHANGED storageVars
    /\ UNCHANGED dashVars

\* lines 305-326: onGenerate up to the call of generateProtocolFromTranscript
OnGenerate ==
    /\ Mounted
    /\ ~submitting
    /\ IF ~allMapped
       THEN /\ error' = UnmappedMsg
            /\ UNCHANGED <<submitting, requests>>
       ELSE IF Len(participants) = 0
       THEN /\ error' = EmptyRosterMsg
            /\ UNCHANGED <<submitting, requests>>
       ELSE /\ error' = ""
            /\ submitting' = TRUE
            /\ requests' = Append(requests,
                   [participants |-> participants,
                    transcript   |-> applyMappingToTranscript(transcript, mapping)])
    /\ UNCHANGED <<comp, transcript, mapping, participants, nextId, generated>>
    /\ UNCHANGED annotVars
    /\ UNCHANGED labelVars
    /\ UNCHANGED viewerVars
    /\ UNCHANGED normVars
    /\ UNCHANGED docVars
    /\ UNCHANGED formatVars
    /\ UNCHANGED inlineVars
    /\ UNCHANGED sheetVars
    /\ UNCHANGED storageVars
    /\ UNCHANGED dashVars

\* lines 327-341: the response, or the rejection, of the request in flight
Response ==
    /\ Mounted
    /\ submitting
    /\ \E completed \in BOOLEAN :
           IF completed
           THEN generated' = TRUE /\ UNCHANGED error
           ELSE error' = GenerationMsg /\ UNCHANGED generated
    /\ submitting' = FALSE
    /\ requests' = Tail(requests)
    /\ UNCHANGED <<comp, transcript, mapping, participants, nextId>>
    /\ UNCHANGED annotVars
    /\ UNCHANGED labelVars
    /\ UNCHANGED viewerVars
    /\ UNCHANGED normVars
    /\ UNCHANGED docVars
    /\ UNCHANGED formatVars
    /\ UNCHANGED inlineVars
    /\ UNCHANGED sheetVars
    /\ UNCHANGED storageVars
    /\ UNCHANGED dashVars

NextMapping ==
    \/ HandleSave
    \/ HandleDelete
    \/ HandleChange
    \/ OnGenerate
    \/ Response

SpecMapping == InitMapping /\ [][NextMapping]_vars

----------------------------------------------------------------------------
(* Claims about the SpeakerMapping component *)

\* the label has an entry whose name holds a character that is not whitespace
Named(label) ==
    \E k \in 1..Len(mapping) :
        /\ mapping[k][1] = label
        /\ \E c \in 1..Len(mapping[k][2]) : ~IsWs(mapping[k][2][c])

SomeLabelUnnamed ==
    \E k \in 1..Len(labelsResult.labels) : ~Named(labelsResult.labels[k])

\* C2: no step sends a generation request while an extracted label has no
\* non-blank name mapped to it; onGenerate called in such a state leaves an
\* error message, sends nothing and is not submitting afterwards.
C2_NoRequestWhileLabelUnmapped ==
    [][ /\ Len(requests') > Len(requests) => ~SomeLabelUnnamed
        /\ (OnGenerate /\ SomeLabelUnnamed) =>
               /\ error' # ""
               /\ requests' = requests
               /\ ~submitting' ]_vars

\* after a participant was deleted onGenerate has refused a mapping that names
\* one label and not another
C2_Witness ==
    /\ comp = "mapping"
    /\ error = UnmappedMsg
    /\ requests = <<>>
    /\ SomeLabelUnnamed
    /\ \E k \in 1..Len(labelsResult.labels) : Named(labelsResult.labels[k])
    /\ nextId > Len(participants) + 1

----------------------------------------------------------------------------
(* ProtocolViewer: the protocol number (part_004, lines 273-315, 482, 563-574) *)

MaxStore == 3
MaxDownloads == 2

\* the placeholder for an unknown value
ND == Str(<<"N/D">>)

\* String(n)
NumStr(n) == Str(<<ToString(n)>>)

\* a ?? b
Coalesce(a, b) == IF IsNullish(a) THEN b ELSE a

\* line 207 (with no metadata object in the payload) and line 252:
\* metadata.protocol_number of the model buildProtocolJson returns
BuiltNumber(upstream) == Coalesce(upstream, ND)

\* String((existingProtocols.length || 0) + 1), lines 292 and 306
NumberFor(count) == NumStr(count + 1)

UpstreamNumbers == {Undefined, Str(<<"77">>)}

\* line 315 left out: the number of the parsed payload stays in the model
DocumentNumberUpstream(currentProtocolNumber, upstream) == BuiltNumber(upstream)

\* lines 313-315: parsed.metadata.protocol_number = currentProtocolNumber
DocumentNumber(currentProtocolNumber, upstream) == currentProtocolNumber

\* lines 482, 563 and 574: the number in the title line and in the file name
\* (`Protokol_${protocolNumber || Date.now()}.docx`)
Document(number) ==
    [title |-> number, fileName |-> Or(number, Str(<<"Date.now">>))]

InitViewer ==
    /\ comp = "viewer"
    /\ storeCount \in 0..MaxStore
    /\ upstreamNumber \in UpstreamNumbers
    /\ protocolNumber = ND
    /\ mountLookup = "pending"
    /\ isDownloading = FALSE
    /\ lookups = 1
    /\ downloads = 0
    /\ returned = {}
    /\ documents = <<>>
    /\ transcript = <<>>
    /\ mapping = <<>>
    /\ mappedTranscript = NotYet
    /\ diarization = Undefined
    /\ labelsResult = NoLabels
    /\ FormIdle
    /\ NormIdle
    /\ DocIdle
    /\ FormatIdle
    /\ InlineIdle
    /\ SheetIdle
    /\ StorageIdle
    /\ DashIdle

\* lines 291-295: the call of the effect resolves with the list the store
\* holds now, or is rejected
MountLookupSettles ==
    /\ comp = "viewer"
    /\ mountLookup = "pending"
    /\ \E ok \in BOOLEAN :
           IF ok
           THEN /\ mountLookup' = "done"
                /\ protocolNumber' = NumberFor(storeCount)
                /\ returned' = returned \cup {storeCount}
           ELSE /\ mountLookup' = "failed"
                /\ UNCHANGED <<protocolNumber, returned>>
    /\ UNCHANGED <<storeCount, upstreamNumber, isDownloading, lookups, downloads, documents>>
    /\ UNCHANGED <<comp, transcript, mapping>>
    /\ UNCHANGED annotVars
    /\ UNCHANGED labelVars
    /\ UNCHANGED formVars
    /\ UNCHANGED normVars
    /\ UNCHANGED docVars
    /\ UNCHANGED formatVars
    /\ UNCHANGED inlineVars
    /\ UNCHANGED sheetVars
    /\ UNCHANGED storageVars
    /\ UNCHANGED dashVars

\* a protocol is saved to the store by some session
StoreAdd ==
    /\ comp = "viewer"
    /\ storeCount < MaxStore
    /\ storeCount' = storeCount + 1
    /\ UNCHANGED <<upstreamNumber, protocolNumber, mountLookup, isDownloading, lookups,
                   downloads, returned, documents>>
    /\ UNCHANGED <<comp, transcript, mapping>>
    /\ UNCHANGED annotVars
    /\ UNCHANGED labelVars
    /\ UNCHANGED formVars
    /\ UNCHANGED normVars
    /\ UNCHANGED docVars
    /\ UNCHANGED formatVars
    /\ UNCHANGED inlineVars
    /\ UNCHANGED sheetVars
    /\ UNCHANGED storageVars
    /\ UNCHANGED dashVars

\* a protocol is deleted from the store by some session
StoreDelete ==
    /\ comp = "viewer"
    /\ storeCount > 0
    /\ storeCount' = storeCount - 1
    /\ UNCHANGED <<upstreamNumber, protocolNumber, mountLookup, isDownloading, lookups,
                   downloads, returned, documents>>
    /\ UNCHANGED <<comp, transcript, mapping>>
    /\ UNCHANGED annotVars
    /\ UNCHANGED labelVars
    /\ UNCHANGED formVars
    /\ UNCHANGED normVars
    /\ UNCHANGED docVars
    /\ UNCHANGED formatVars
    /\ UNCHANGED inlineVars
    /\ UNCHANGED sheetVars
    /\ UNCHANGED storageVars
    /\ UNCHANGED dashVars

\* lines 566-569 and 300-304: handleDownload calls generateDocument, which
\* assembles with the number the state holds unless that is the placeholder,
\* and then first awaits getProtocols
HandleDownload ==
    /\ comp = "viewer"
    /\ ~isDownloading
    /\ downloads < MaxDownloads
    /\ downloads' = downloads + 1
    /\ IF protocolNumber # ND
       THEN /\ documents' = Append(documents,
                                   Document(DocumentNumber(protocolNumber, upstreamNumber)))
            /\ UNCHANGED <<isDownloading, lookups>>
       ELSE /\ isDownloading' = TRUE
            /\ lookups' = lookups + 1
            /\ UNCHANGED documents
    /\ UNCHANGED <<storeCount, upstreamNumber, protocolNumber, mountLookup, returned>>
    /\ UNCHANGED <<comp, transcript, mapping>>
    /\ UNCHANGED annotVars
    /\ UNCHANGED labelVars
    /\ UNCHANGED formVars
    /\ UNCHANGED normVars
    /\ UNCHANGED docVars
    /\ UNCHANGED formatVars
    /\ UNCHANGED inlineVars
    /\ UNCHANGED sheetVars
    /\ UNCHANGED storageVars
    /\ UNCHANGED dashVars

\* lines 304-315 and 569-583: the awaited getProtocols resolves or is rejected,
\* currentProtocolNumber being the placeholder read before the await, and the
\* document is assembled
DownloadLookupSettles ==
    /\ comp = "viewer"
    /\ isDownloading
    /\ \E ok \in BOOLEAN :
           IF ok
           THEN /\ protocolNumber' = NumberFor(storeCount)
                /\ returned' = returned \cup {storeCount}
                /\ documents' = Append(documents,
                       Document(DocumentNumber(NumberFor(storeCount), upstreamNumber)))
           ELSE /\ UNCHANGED <<protocolNumber, returned>>
                /\ documents' = Append(documents,
                       Document(DocumentNumber(ND, upstreamNumber)))
    /\ isDownloading' = FALSE
    /\ UNCHANGED <<storeCount, upstreamNumber, mountLookup, lookups, downloads>>
    /\ UNCHANGED <<comp, transcript, mapping>>
    /\ UNCHANGED annotVars
    /\ UNCHANGED labelVars
    /\ UNCHANGED formVars
    /\ UNCHANGED normVars
    /\ UNCHANGED docVars
    /\ UNCHANGED formatVars
    /\ UNCHANGED inlineVars
    /\ UNCHANGED sheetVars
    /\ UNCHANGED storageVars
    /\ UNCHANGED dashVars

NextViewer ==
    \/ MountLookupSettles
    \/ StoreAdd
    \/ StoreDelete
    \/ HandleDownload
    \/ DownloadLookupSettles

SpecViewer == InitViewer /\ [][NextViewer]_vars

----------------------------------------------------------------------------
(* Claims about the protocol number *)

\* this step assembles a document
Assembles == Len(documents') = Len(documents) + 1
Assembled == documents'[Len(documents')]

\* C5: the number of every assembled document that carries a number is the
\* count the store holds when generateDocument assembles it, plus one.
C5_NumberIsStoreCountAtAssembly ==
    [][ (Assembles /\ Assembled.title # ND) =>
            Assembled.title = NumStr(storeCount + 1) ]_vars

\* C6: the number in the title line and in the file name of an assembled
\* document is a count getProtocols returned plus one, or the placeholder when
\* the lookup of this generateDocument call failed, and so never the upstream
\* protocol_number; a download makes at most one lookup, and the settling of
\* that lookup, failed or not, assembles the document.
C6_NumberFromLookupOrPlaceholder ==
    [][ /\ Assembles =>
            /\ Assembled.fileName = Assembled.title
            /\ \/ \E c \in returned' : Assembled.title = NumStr(c + 1)
               \/ Assembled.title = ND /\ isDownloading /\ returned' = returned
            /\ Assembled.title = upstreamNumber =>
                   \E c \in returned' : upstreamNumber = NumStr(c + 1)
        /\ lookups' <= 1 + downloads'
        /\ lookups' - lookups <= 1
        /\ (isDownloading /\ ~isDownloading') => Assembles ]_vars

\* with a number in the payload, a lookup that failed gave a document with
\* the placeholder and a later download one with a number from the store
C6_Witness ==
    /\ comp = "viewer"
    /\ upstreamNumber = Str(<<"77">>)
    /\ Len(documents) = 2
    /\ documents[1].title = ND
    /\ documents[1].fileName = ND
    /\ documents[2].title = NumStr(storeCount + 1)
    /\ lookups = 3

----------------------------------------------------------------------------
(* buildProtocolJson (part_004, lines 67-262) *)

\* the outcome of an expression that throws
Threw == [t |-> "threw"]
IsThrew(v) == v.t = "threw"

\* v.k of a value that is neither null nor undefined
Field(v, k) == IF k \in DOMAIN v THEN v[k] ELSE Undefined

\* a text handed to JSON.parse: whether it is valid JSON, its first character
\* and the value it stands for
JsonOf(value) ==
    [t |-> "json", valid |-> TRUE,
     first |-> IF value.t = "array" THEN "[" ELSE IF value.t = "full" THEN "{" ELSE "x",
     value |-> value]
BrokenJson(first) == [t |-> "json", valid |-> FALSE, first |-> first, value |-> Undefined]

\* JSON.parse(jsonString): a text that is not JSON makes it throw
JSONparse(text) == IF text.t = "json" /\ text.valid THEN text.value ELSE Threw

\* trimmedContent.startsWith("{") || trimmedContent.startsWith("[")
StartsLikeJson(text) == text.t = "json" /\ text.first \in {"{", "["}

\* an attendee row or roster entry, and the object the payload parses to
Row(name, organization, role, position) ==
    [t |-> "row", name |-> name, organization |-> organization, role |-> role,
     position |-> position, id |-> Undefined]
EmptyFull ==
    [t |-> "full", protocol_number |-> Undefined, meeting_title |-> Undefined,
     date |-> Undefined, city |-> Undefined, summary |-> Undefined,
     decisions |-> Undefined, attendees_table |-> Undefined,
     participants |-> Undefined, assignments_table |-> Undefined,
     metadata |-> Undefined]

\* the prop protocol of ProtocolViewer
EmptyProtocol ==
    [t |-> "protocol", contentJson |-> Undefined, content |-> Str(<<>>),
     participantsData |-> Undefined, participants |-> Arr(<<>>),
     date |-> Undefined, summary |-> Undefined, decisions |-> Arr(<<>>),
     protocolType |-> Undefined]

\* v && v !== "N/D" && v.trim(): "valid", "invalid", or "throws" when v is
\* truthy, not the placeholder and has no method trim
Validity(v) ==
    IF ~Truthy(v) \/ v = ND THEN "invalid"
    ELSE IF v.t # "string" THEN "throws"
    ELSE IF Trim(v.s) = <<>> THEN "invalid"
    ELSE "valid"

Empty == Str(<<>>)

\* lines 101-110: the entry of participantsDataMap made from one roster entry
RosterInfo(p) ==
    IF IsNullish(p) THEN Threw
    ELSE LET o == Field(p, "organization")
             r == Or(Field(p, "role"), Field(p, "position"))
         IN  IF Validity(o) = "throws" \/ Validity(r) = "throws" THEN Threw
             ELSE [t |-> "info",
                   name |-> Or(Field(p, "name"), ND),
                   organization |-> IF Validity(o) = "valid" THEN o ELSE Empty,
                   role |-> IF Validity(r) = "valid" THEN r ELSE Empty]

\* f applied to every element, or Threw when it throws for one of them
MapRows(rows, f(_)) ==
    LET out == [k \in 1..Len(rows) |-> f(rows[k])]
    IN  IF \E k \in 1..Len(rows) : IsThrew(out[k]) THEN Threw ELSE Arr(out)

IsArray(v) == v.t = "array"

\* lines 96-113: participantsDataMap, as the entries in the order they are set
participantsDataMap(protocol) ==
    IF Truthy(protocol.participantsData) /\ IsArray(protocol.participantsData)
    THEN MapRows(protocol.participantsData.items, RosterInfo)
    ELSE Arr(<<>>)

\* participantsDataMap.get(name): the entry set last for the key
MapGet(map, name) ==
    IF \E k \in 1..Len(map) : map[k].name = name
    THEN map[CHOOSE k \in 1..Len(map) :
                 map[k].name = name /\ \A j \in (k + 1)..Len(map) : map[j].name # name]
    ELSE Undefined

Attendee(name, organization, role) ==
    [t |-> "row", name |-> name, organization |-> organization, role |-> role]

\* lines 124-146 and 164-177: the upstream value when it is valid, else the
\* value of participantInfo when that is truthy, else ""
Merge(upstream, info, k) ==
    IF Validity(upstream) = "valid" THEN upstream
    ELSE IF ~IsNullish(info) /\ Truthy(info[k]) THEN info[k]
    ELSE Empty

\* lines 118-155: one row of fullProtocol.attendees_table
FromAttendeesTable(a, map) ==
    IF IsNullish(a) THEN Threw
    ELSE LET name == Or(Field(a, "name"), ND)
             participantInfo == MapGet(map, name)
             attendeeRole == Or(Field(a, "role"), Field(a, "position"))
         IN  IF Validity(Field(a, "organization")) = "throws"
                \/ Validity(attendeeRole) = "throws"
             THEN Threw
             ELSE Attendee(name,
                           Merge(Field(a, "organization"), participantInfo, "organization"),
                           Merge(attendeeRole, participantInfo, "role"))

\* lines 159-184: one row of fullProtocol.participants
FromParticipants(p, map) ==
    IF IsNullish(p) THEN Threw
    ELSE LET name == Or(Or(Field(p, "name"), Field(p, "id")), ND)
             participantInfo == MapGet(map, name)
         IN  IF Validity(Field(p, "organization")) = "throws"
                \/ Validity(Field(p, "role")) = "throws"
             THEN Threw
             ELSE Attendee(name,
                           Merge(Field(p, "organization"), participantInfo, "organization"),
                           Merge(Field(p, "role"), participantInfo, "role"))

\* lines 188-198: one entry of protocol.participantsData, no table in the payload
FromRoster(p) ==
    IF IsNullish(p) THEN Threw
    ELSE LET o == Field(p, "organization")
         IN  Attendee(Or(Field(p, "name"), ND),
                      IF Truthy(o) /\ o # ND /\ o # Str(<<"000">>) THEN o ELSE Empty,
                      Or(Field(p, "role"), Empty))

\* lines 115-201: attendees_data
attendees_data(fullProtocol, protocol, map) ==
    LET table == Field(fullProtocol, "attendees_table")
        parts == Field(fullProtocol, "participants")
        FromTable(a) == FromAttendeesTable(a, map)
        FromParts(p) == FromParticipants(p, map)
    IN  IF Truthy(table) /\ IsArray(table) THEN MapRows(table.items, FromTable)
        ELSE IF Truthy(parts) /\ IsArray(parts) THEN MapRows(parts.items, FromParts)
        ELSE IF Truthy(protocol.participantsData) /\ IsArray(protocol.participantsData)
        THEN MapRows(protocol.participantsData.items, FromRoster)
        ELSE Arr(<<>>)

\* a?.k
OptField(a, k) == IF IsNullish(a) THEN Undefined ELSE Field(a, k)

Moscow == Str(<<"g. Moskva">>)

\* lines 205-216: the model built from the parsed payload
Result(fullProtocol, protocol, attendees) ==
    LET meta == Field(fullProtocol, "metadata")
        From(k, last) == Coalesce(Coalesce(Field(fullProtocol, k), OptField(meta, k)), last)
        decisions == Field(fullProtocol, "decisions")
        assignments == Field(fullProtocol, "assignments_table")
    IN  [t |-> "model",
         metadata |-> [protocol_number |-> From("protocol_number", ND),
                       meeting_title   |-> From("meeting_title", ND),
                       date            |-> From("date", Coalesce(protocol.date, ND)),
                       city            |-> From("city", Moscow)],
         summary  |-> Coalesce(Field(fullProtocol, "summary"), ND),
         decisions |-> IF IsArray(decisions) THEN decisions ELSE Arr(<<Or(decisions, ND)>>),
         attendees_table |-> IF Len(attendees.items) > 0 THEN attendees
                             ELSE Or(protocol.participantsData, Arr(<<>>)),
         assignments_table |-> IF IsArray(assignments) THEN assignments
                               ELSE IF Truthy(assignments) THEN Arr(<<assignments>>)
                               ELSE Arr(<<>>)]

\* lines 85-224: the body of try, Threw when something in it throws
TryBlock(protocol, jsonString) ==
    LET fullProtocol == JSONparse(jsonString)
    IN  IF IsThrew(fullProtocol) \/ IsNullish(fullProtocol) THEN Threw
        ELSE LET map == participantsDataMap(protocol)
             IN  IF IsThrew(map) THEN Threw
                 ELSE LET attendees == attendees_data(fullProtocol, protocol, map.items)
                      IN  IF IsThrew(attendees) THEN Threw
                          ELSE Result(fullProtocol, protocol, attendees)

\* lines 232-236 and 238-247: one attendee of the fallback
FallbackFromRoster(p) ==
    IF IsNullish(p) THEN Threw
    ELSE Attendee(Or(Field(p, "name"), ND),
                  Or(Field(p, "organization"), Empty),
                  Or(Field(p, "role"), Empty))
FallbackFromName(p) ==
    IF p.t = "string" THEN Attendee(p, Empty, Empty)
    ELSE IF IsNullish(p) THEN Threw
    ELSE Attendee(Or(Or(Field(p, "name"), p), ND),
                  Or(Field(p, "organization"), Empty),
                  Or(Field(p, "role"), Empty))

Meeting == Str(<<"Soveshchanie">>)

\* lines 227-261
Fallback(protocol) ==
    LET fallback_attendees ==
            IF Truthy(protocol.participantsData) /\ IsArray(protocol.participantsData)
            THEN MapRows(protocol.participantsData.items, FallbackFromRoster)
            ELSE IF Truthy(protocol.participants) /\ IsArray(protocol.participants)
            THEN MapRows(protocol.participants.items, FallbackFromName)
            ELSE Arr(<<>>)
    IN  IF IsThrew(fallback_attendees) THEN Threw
        ELSE [t |-> "model",
              metadata |-> [protocol_number |-> ND,
                            meeting_title   |-> Or(protocol.protocolType, Meeting),
                            date            |-> Or(protocol.date, ND),
                            city            |-> Moscow],
              summary  |-> Or(protocol.summary, ND),
              decisions |-> IF IsArray(protocol.decisions) THEN protocol.decisions
                            ELSE Arr(<<ND>>),
              attendees_table |-> fallback_attendees,
              assignments_table |-> Arr(<<>>)]

\* lines 69-82
jsonString(protocol) ==
    IF Truthy(protocol.contentJson) THEN protocol.contentJson
    ELSE IF Truthy(protocol.content) /\ StartsLikeJson(protocol.content) THEN protocol.content
    ELSE Null

\* lines 67-262: the model returned, or Threw
buildProtocolJson(protocol) ==
    LET text == jsonString(protocol)
        tried == IF Truthy(text) THEN TryBlock(protocol, text) ELSE Threw
    IN  IF IsThrew(tried) THEN Fallback(protocol) ELSE tried

----------------------------------------------------------------------------
(* Dashboard.handleProtocolGenerated (part_002, lines 528-594): the result *)

EmptyInner ==
    [t |-> "inner", content |-> Undefined, summary |-> Undefined, decisions |-> Undefined,
     participants |-> Undefined, created_at |-> Undefined, protocol_type |-> Undefined]
EmptyResponse ==
    [t |-> "response", protocol |-> Undefined, content |-> Undefined,
     summary |-> Undefined, decisions |-> Undefined, participants |-> Undefined,
     created_at |-> Undefined, protocol_type |-> Undefined]

Automatic == Str(<<"Obrabotano avtomaticheski">>)

\* lines 583-587
resultDecisions(protocolData_) ==
    LET inner == OptField(Field(protocolData_, "protocol"), "decisions")
        top   == Field(protocolData_, "decisions")
    IN  IF IsArray(inner) THEN inner
        ELSE IF IsArray(top) THEN top
        ELSE IF Truthy(inner) THEN Arr(<<inner>>)
        ELSE IF Truthy(top) THEN Arr(<<top>>)
        ELSE Arr(<<Automatic>>)

\* line 575: typeof p === 'string' ? p : (p.name || p)
NameOf(p) ==
    IF p.t = "string" THEN p
    ELSE IF IsNullish(p) THEN Threw
    ELSE Or(Field(p, "name"), p)

\* lines 563-590: the object given to setProtocolResult, Threw when building
\* it throws.  The date is the text toLocaleDateString("ru-RU") gives for
\* created_at, or for today when the response has none.
ProtocolResult(protocolData_, participants_) ==
    LET inner == Field(protocolData_, "protocol")
        Both(k) == Or(OptField(inner, k), Field(protocolData_, k))
        backendParticipants == Both("participants")
        participantsToUse ==
            IF Truthy(backendParticipants) /\ IsArray(backendParticipants)
               /\ Len(backendParticipants.items) > 0
            THEN backendParticipants ELSE Arr(participants_)
        names == MapRows(participantsToUse.items, NameOf)
    IN  IF IsThrew(names) THEN Threw
        ELSE [t |-> "protocol",
              participants |-> names,
              participantsData |-> participantsToUse,
              date |-> IF Truthy(Both("created_at")) THEN Str(<<"23.11.2025">>)
                       ELSE Str(<<"02.11.2026">>),
              content |-> Or(Both("content"), Str(<<"Protokol ne byl sgenerirovan">>)),
              contentJson |-> Or(Both("content"), Null),
              summary |-> Or(Both("summary"), Str(<<"Avtomaticheski sgenerirovannoe rezyume">>)),
              decisions |-> resultDecisions(protocolData_),
              protocolType |-> Both("protocol_type")]

----------------------------------------------------------------------------
(* Inputs of buildProtocolJson and of handleProtocolGenerated *)

MaxRoster == 2
MaxAttendees == 2
MaxDecisions == 2

Ivan == Str(<<"Ivan">>)
Petr == Str(<<"Petr">>)
OrgA == Str(<<"OrgA">>)
OrgB == Str(<<"OrgB">>)
Director  == Str(<<"Director">>)
Secretary == Str(<<"Secretary">>)
Blank == Str(<<" ">>)

\* entries of the roster participantsData: complete, with position in the place
\* of role, with placeholders, without a name, with a number, null
RosterEntries ==
    { Row(Ivan, OrgA, Director, Undefined),
      Row(Ivan, Undefined, Undefined, Secretary),
      Row(Petr, ND, Blank, Undefined),
      Row(Undefined, OrgB, Secretary, Undefined),
      Row(Petr, Num(1), Undefined, Undefined),
      Null }

Rosters == {Undefined} \cup { Arr(l) : l \in SeqsUpTo(RosterEntries, MaxRoster) }

\* rows of attendees_table or participants in the payload
UpstreamRows ==
    { Row(Ivan, OrgB, Secretary, Undefined),
      Row(Ivan, ND, ND, Undefined),
      Row(Ivan, Blank, Undefined, Director),
      Row(Petr, Undefined, Undefined, Undefined),
      Row(Undefined, Undefined, Undefined, Undefined),
      Null }

Tables == { Arr(l) : l \in SeqsUpTo(UpstreamRows, MaxAttendees) }

Decision1 == Str(<<"Approved budget">>)
Decision2 == Str(<<"Hire">>)

\* values of the field decisions
DecisionValues ==
    {Undefined, Null, Empty, Decision1, Num(0)}
    \cup { Arr(l) : l \in SeqsUpTo({Decision1, Decision2}, MaxDecisions) }

\* payloads with attendees and a roster to merge them with
MergeProtocols ==
    { [EmptyProtocol EXCEPT !.contentJson = JsonOf(full), !.participantsData = roster] :
        full \in { [EmptyFull EXCEPT !.attendees_table = tb] : tb \in Tables }
                 \cup { [EmptyFull EXCEPT !.participants = tb] : tb \in Tables },
        roster \in Rosters }

\* what contentJson and content can hold: JSON of an object, of null, of an
\* array, of a scalar, text that is not JSON, nothing
Contents ==
    { <<JsonOf([EmptyFull EXCEPT !.decisions = d]), Empty>> : d \in DecisionValues }
    \cup { <<Undefined, JsonOf([EmptyFull EXCEPT !.decisions = d])>> : d \in DecisionValues }
    \cup { <<JsonOf(Null), Empty>>, <<JsonOf(Arr(<<>>)), Empty>>, <<JsonOf(Num(1)), Empty>>,
           <<JsonOf(Decision1), Empty>>, <<BrokenJson("{"), Empty>>,
           <<BrokenJson("x"), Empty>>, <<Undefined, BrokenJson("[")>>,
           <<Undefined, JsonOf(Num(1))>>, <<Undefined, Str(<<"hello">>)>>,
           <<Null, Empty>>,
           <<JsonOf([EmptyFull EXCEPT !.protocol_number = Str(<<"77">>),
                                      !.metadata = [t |-> "meta", city |-> Str(<<"Kazan">>)]]),
             Empty>> }

SmallRosters == {Undefined, Arr(<<Row(Ivan, OrgA, Undefined, Undefined)>>), Arr(<<Null>>)}

ShapeProtocols ==
    { [EmptyProtocol EXCEPT !.contentJson = c[1], !.content = c[2],
                            !.participantsData = roster,
                            !.participants = Arr(<<Ivan>>),
                            !.decisions = ds,
                            !.protocolType = type,
                            !.date = Str(<<"23.11.2025">>)] :
        c \in Contents, roster \in SmallRosters,
        ds \in {Arr(<<>>), Arr(<<Decision1>>)},
        type \in {Undefined, Str(<<"standard-meeting">>)} }

Protocols == MergeProtocols \cup ShapeProtocols

\* responses of the generation request
ProtocolDatas ==
    { [EmptyResponse EXCEPT !.protocol = [EmptyInner EXCEPT !.decisions = d, !.content = c]] :
        d \in DecisionValues,
        c \in {Undefined, BrokenJson("x"), JsonOf([EmptyFull EXCEPT !.decisions = Arr(<<>>)])} }
    \cup { [EmptyResponse EXCEPT !.decisions = d, !.content = BrokenJson("x")] :
             d \in DecisionValues }
    \cup { [EmptyResponse EXCEPT !.participants = ps] : ps \in SmallRosters }

DashRosters == { <<>>, <<Row(Ivan, OrgA, Director, Undefined)>> }

----------------------------------------------------------------------------
(* Specification of the normalizer *)

InitNormalize ==
    /\ comp = "normalize"
    /\ \/ /\ protocolData = Undefined
          /\ dashParticipants = <<>>
          /\ protocolResult \in Protocols
       \/ /\ protocolData \in ProtocolDatas
          /\ dashParticipants \in DashRosters
          /\ protocolResult = Null
    /\ built = NotBuilt
    /\ transcript = <<>>
    /\ mapping = <<>>
    /\ mappedTranscript = NotYet
    /\ diarization = Undefined
    /\ labelsResult = NoLabels
    /\ FormIdle
    /\ ViewerIdle
    /\ DocIdle
    /\ FormatIdle
    /\ InlineIdle
    /\ SheetIdle
    /\ StorageIdle
    /\ DashIdle

\* part_002, lines 563-592: the result is built and given to setProtocolResult;
\* when building it throws the state keeps its value
HandleProtocolGenerated ==
    /\ comp = "normalize"
    /\ protocolData # Undefined
    /\ protocolResult = Null
    /\ ~IsThrew(ProtocolResult(protocolData, dashParticipants))
    /\ protocolResult' = ProtocolResult(protocolData, dashParticipants)
    /\ UNCHANGED <<protocolData, dashParticipants, built>>
    /\ UNCHANGED <<comp, transcript, mapping>>
    /\ UNCHANGED annotVars
    /\ UNCHANGED labelVars
    /\ UNCHANGED formVars
    /\ UNCHANGED viewerVars
    /\ UNCHANGED docVars
    /\ UNCHANGED formatVars
    /\ UNCHANGED inlineVars
    /\ UNCHANGED sheetVars
    /\ UNCHANGED storageVars
    /\ UNCHANGED dashVars

\* part_004, lines 278, 313, 588: buildProtocolJson(protocol)
BuildProtocolJson ==
    /\ comp = "normalize"
    /\ protocolResult # Null
    /\ built = NotBuilt
    /\ built' = buildProtocolJson(protocolResult)
    /\ UNCHANGED <<protocolData, dashParticipants, protocolResult>>
    /\ UNCHANGED <<comp, transcript, mapping>>
    /\ UNCHANGED annotVars
    /\ UNCHANGED labelVars
    /\ UNCHANGED formVars
    /\ UNCHANGED viewerVars
    /\ UNCHANGED docVars
    /\ UNCHANGED formatVars
    /\ UNCHANGED inlineVars
    /\ UNCHANGED sheetVars
    /\ UNCHANGED storageVars
    /\ UNCHANGED dashVars

NextNormalize ==
    \/ HandleProtocolGenerated
    \/ BuildProtocolJson

SpecNormalize == InitNormalize /\ [][NextNormalize]_vars

----------------------------------------------------------------------------
(* Claims about buildProtocolJson *)

Built == built # NotBuilt

\* the text buildProtocolJson hands to JSON.parse is not JSON, or there is none
Unparsable ==
    LET text == jsonString(protocolResult)
    IN  ~(text.t = "json" /\ text.valid)

\* C7: the decisions of the model buildProtocolJson returns, and of the result
\* handleProtocolGenerated builds, are a list with at least one element.
C7_DecisionsNeverEmpty ==
    /\ (Built /\ built.t = "model") =>
           /\ IsArray(built.decisions)
           /\ Len(built.decisions.items) >= 1
    /\ (protocolData # Undefined /\ protocolResult # Null) =>
           /\ IsArray(protocolResult.decisions)
           /\ Len(protocolResult.decisions.items) >= 1

\* C8: buildProtocolJson returns a model for every input: it never throws.
C8_NeverThrows ==
    Built => built.t = "model"

\* a value that is there and is not the empty string
Known(v) == ~IsNullish(v) /\ v # Empty

\* the values the roster (participantsData, else participants) holds
RosterValues ==
    LET pd == protocolResult.participantsData
        ps == protocolResult.participants
        entries == IF IsArray(pd) THEN pd.items ELSE IF IsArray(ps) THEN ps.items ELSE <<>>
    IN  { entries[k] : k \in 1..Len(entries) }
        \cup UNION { { Field(entries[k], f) : f \in {"name", "organization", "role"} } :
                     k \in { j \in 1..Len(entries) : ~IsNullish(entries[j]) } }

\* C9: when the content cannot be parsed, every field of the model returned is
\* defined, is not the empty string, and is a value of the protocol held
\* locally, of its roster, or the placeholder.
C9_FallbackFieldsKnown ==
    (Built /\ built.t = "model" /\ Unparsable) =>
        /\ built.metadata.protocol_number = ND
        /\ built.metadata.meeting_title \in {protocolResult.protocolType, ND}
        /\ built.metadata.date \in {protocolResult.date, ND}
        /\ built.metadata.city = ND
        /\ built.summary \in {protocolResult.summary, ND}
        /\ \A v \in {built.metadata.meeting_title, built.metadata.date, built.summary} :
               Known(v)
        /\ IsArray(built.decisions)
        /\ IsArray(built.assignments_table)
        /\ IsArray(built.attendees_table)
        /\ \A k \in 1..Len(built.attendees_table.items) :
               \A f \in {"name", "organization", "role"} :
                   LET v == Field(built.attendees_table.items[k], f)
                   IN  Known(v) /\ v \in RosterValues \cup {ND}

\* a string that is not blank and not the placeholder
UpstreamValid(v) ==
    v.t = "string" /\ v # ND /\ \E c \in 1..Len(v.s) : ~IsWs(v.s[c])

\* the attendee rows of the payload, under attendees_table or participants
UpstreamTable ==
    LET full == JSONparse(jsonString(protocolResult))
    IN  IF IsThrew(full) \/ IsNullish(full) THEN Arr(<<>>)
        ELSE IF IsArray(Field(full, "attendees_table")) THEN Field(full, "attendees_table")
        ELSE IF IsArray(Field(full, "participants")) THEN Field(full, "participants")
        ELSE Arr(<<>>)

\* a roster entry with exactly this name holds val as its field f
RosterGives(name, f, val) ==
    /\ IsArray(protocolResult.participantsData)
    /\ \E k \in 1..Len(protocolResult.participantsData.items) :
           LET e == protocolResult.participantsData.items[k]
           IN  /\ ~IsNullish(e)
               /\ Field(e, "name") = name
               /\ \/ Field(e, f) = val
                  \/ f = "role" /\ Field(e, "position") = val

\* C10: when the payload is merged with the roster, every attendee row keeps
\* its upstream organization and its upstream role or position when these are
\* valid, and otherwise has the value of a roster entry with exactly its name,
\* or none.
C10_AttendeeMerge ==
    (Built /\ built.t = "model"
           /\ ~IsThrew(TryBlock(protocolResult, jsonString(protocolResult)))
           /\ Len(UpstreamTable.items) > 0) =>
        /\ Len(built.attendees_table.items) = Len(UpstreamTable.items)
        /\ \A k \in 1..Len(UpstreamTable.items) :
               LET a   == UpstreamTable.items[k]
                   out == built.attendees_table.items[k]
               IN  /\ IF UpstreamValid(Field(a, "organization"))
                      THEN out.organization = Field(a, "organization")
                      ELSE \/ out.organization = Empty
                           \/ RosterGives(Field(a, "name"), "organization", out.organization)
                   /\ IF UpstreamValid(Field(a, "role"))
                      THEN out.role = Field(a, "role")
                      ELSE IF UpstreamValid(Field(a, "position"))
                      THEN out.role = Field(a, "position")
                      ELSE \/ out.role = Empty
                           \/ RosterGives(Field(a, "name"), "role", out.role)

\* C11: every attendee of the model buildProtocolJson returns has a name, a
\* string that is not empty.
C11_AttendeesNamed ==
    (Built /\ built.t = "model") =>
        /\ IsArray(built.attendees_table)
        /\ \A k \in 1..Len(built.attendees_table.items) :
               LET name == Field(built.attendees_table.items[k], "name")
               IN  name.t = "string" /\ name.s # <<>>

----------------------------------------------------------------------------
(* ProtocolViewer: the decisions buffer and the reviewed section of the     *)
(* document (part_004, lines 267, 277-284, 321-326, 541-546, 595-597, 889)  *)

\* decisions.join("\n"): null and undefined give "", the rest String(e)
joinDecisions(items) ==
    Join([k \in 1..Len(items) |->
             IF IsNullish(items[k]) THEN <<>> ELSE ToStr(items[k])])

\* lines.filter(d => d.trim())
RECURSIVE FilterNonBlank(_)
FilterNonBlank(ls) ==
    IF ls = <<>> THEN <<>>
    ELSE (IF Trim(Head(ls)) = <<>> THEN <<>> ELSE <<Head(ls)>>) \o FilterNonBlank(Tail(ls))

\* editedDecisions.split("\n").filter(d => d.trim())
decisionsArray(text) ==
    LET kept == FilterNonBlank(SplitLines(text))
    IN  [k \in 1..Len(kept) |-> Str(kept[k])]

\* lines 279-284: the buffer the effect sets
MountBuffer(protocol) ==
    LET parsed == buildProtocolJson(protocol)
    IN  IF IsArray(parsed.decisions) /\ Len(parsed.decisions.items) > 0
        THEN joinDecisions(parsed.decisions.items)
        ELSE joinDecisions(protocol.decisions.items)

\* lines 313 and 321-326: parsed.decisions when the document is assembled
documentDecisions(protocol, buffer) ==
    LET parsed == buildProtocolJson(protocol)
    IN  IF buffer # <<>> /\ Trim(buffer) # <<>> /\ Len(decisionsArray(buffer)) > 0
        THEN Arr(decisionsArray(buffer))
        ELSE parsed.decisions

\* line 544: `${idx + 1}. ${d || "N/D"}`
makeParagraph(idx, d) == <<ToString(idx), ". ">> \o ToStr(Or(d, ND))

\* lines 541-546: the paragraphs under the reviewed heading
reviewedSection(decisions) ==
    IF IsArray(decisions) /\ Len(decisions.items) > 0
    THEN [k \in 1..Len(decisions.items) |-> makeParagraph(k, decisions.items[k])]
    ELSE << ND.s >>

\* lines 595-597: the decisions getProtocolData gives the preview
dataDecisions(protocol, buffer) ==
    IF Len(decisionsArray(buffer)) > 0 THEN Arr(decisionsArray(buffer))
    ELSE Or(buildProtocolJson(protocol).decisions, Arr(<<>>))

\* lines 897-901: the text content of the editable block, one "n. d" per
\* decision with nothing between them; null renders as nothing
RECURSIVE textContent(_, _)
textContent(items, k) ==
    IF k > Len(items) THEN <<>>
    ELSE <<ToString(k), ". ">>
         \o (IF IsNullish(items[k]) THEN <<>> ELSE ToStr(items[k]))
         \o textContent(items, k + 1)

----------------------------------------------------------------------------
(* ProtocolViewer: dates and the assignments table of the document          *)
(* (part_004, lines 30-42, 287-288, 333-344, 432-444, 464, 557, 592)        *)
(* A date text is a sequence of tokens: runs of digits and the characters   *)
(* between them.                                                            *)

\* two digits as String(n).padStart(2, '0') writes them
TwoDigits ==
    << "01", "02", "03", "04", "05", "06", "07", "08", "09", "10",
       "11", "12", "13", "14", "15", "16", "17", "18", "19", "20",
       "21", "22", "23", "24", "25", "26", "27", "28", "29", "30", "31" >>
padStart2(n) == TwoDigits[n]

\* \d{2} and \d{4}, and the numbers the tokens stand for
IsDigits2(tok) == tok \in { TwoDigits[n] : n \in 1..31 } \cup {"00", "45"}
Value2(tok) ==
    IF tok = "00" THEN 0 ELSE IF tok = "45" THEN 45
    ELSE CHOOSE n \in 1..31 : TwoDigits[n] = tok
Years == 2024..2025
IsDigits4(tok) == tok \in { ToString(y) : y \in Years }
Value4(tok) == CHOOSE y \in Years : ToString(y) = tok

IsLeap(y) == y % 4 = 0 /\ (y % 100 # 0 \/ y % 400 = 0)
DaysIn(m, y) ==
    IF m = 2 THEN (IF IsLeap(y) THEN 29 ELSE 28)
    ELSE IF m \in {4, 6, 9, 11} THEN 30 ELSE 31

Invalid == [valid |-> FALSE, y |-> 0, m |-> 0, d |-> 0]

\* new Date(dateStr): a text of the form yyyy-mm-dd is midnight UTC of that
\* day; the other texts of this model are not dates
newDate(dateStr) ==
    LET s == dateStr.s
    IN  IF /\ dateStr.t = "string" /\ Len(s) = 5
           /\ IsDigits4(s[1]) /\ s[2] = "-" /\ IsDigits2(s[3])
           /\ s[4] = "-" /\ IsDigits2(s[5])
           /\ Value2(s[3]) \in 1..12
           /\ Value2(s[5]) \in 1..DaysIn(Value2(s[3]), Value4(s[1]))
        THEN [valid |-> TRUE, y |-> Value4(s[1]), m |-> Value2(s[3]), d |-> Value2(s[5])]
        ELSE Invalid

\* the calendar day before
PrevDay(date) ==
    IF date.d > 1 THEN [date EXCEPT !.d = date.d - 1]
    ELSE IF date.m > 1
         THEN [date EXCEPT !.m = date.m - 1, !.d = DaysIn(date.m - 1, date.y)]
    ELSE [date EXCEPT !.y = date.y - 1, !.m = 12, !.d = 31]

\* getDate(), getMonth() + 1, getFullYear(): the local day of midnight UTC
localDay(date, zone) == IF zone = "west" THEN PrevDay(date) ELSE date

\* lines 30-42
formatDateForProtocol(dateStr, zone) ==
    IF ~Truthy(dateStr) \/ dateStr = ND THEN ND
    ELSE LET date == newDate(dateStr)
         IN  IF ~date.valid THEN dateStr
             ELSE LET local == localDay(date, zone)
                  IN  Str(<<padStart2(local.d), ".", padStart2(local.m), ".",
                            ToString(local.y)>>)

\* /^\d{2}\.\d{2}\.\d{4}$/
IsDisplayDate(text) ==
    /\ Len(text) = 5
    /\ IsDigits2(text[1]) /\ text[2] = "." /\ IsDigits2(text[3])
    /\ text[4] = "." /\ text[5] \in { ToString(y) : y \in Years }

\* lines 336-344: parsed.metadata.date after the edit of the date is applied
documentDate(protocol, edited) ==
    LET parsed == buildProtocolJson(protocol)
    IN  IF edited # <<>> /\ Trim(edited) # <<>>
        THEN (IF IsDisplayDate(edited)
              THEN Str(<<edited[5], "-", edited[3], "-", edited[1]>>)
              ELSE Str(edited))
        ELSE parsed.metadata.date

\* line 464: dateText
dateText(protocol, edited, zone) ==
    Or(Str(edited), formatDateForProtocol(documentDate(protocol, edited), zone))

\* line 557: the date under the signature
signatureDate(protocol, edited, zone) ==
    formatDateForProtocol(documentDate(protocol, edited), zone)

\* line 592: the date getProtocolData gives the preview
dataDate(protocol, edited, zone) ==
    LET parsed == buildProtocolJson(protocol)
    IN  Or(Str(edited),
           formatDateForProtocol(Or(parsed.metadata.date, protocol.date), zone))

\* line 288: the date the effect sets
MountDate(protocol, zone) ==
    LET parsed == buildProtocolJson(protocol)
    IN  formatDateForProtocol(Or(parsed.metadata.date, protocol.date), zone).s

\* an entry of assignments_table
Assignment(no, task, responsible, due_date) ==
    [t |-> "assignment", no |-> no, task |-> task, responsible |-> responsible,
     due_date |-> due_date]

\* String(v) of a number or a string
StringOf(v) ==
    CASE v.t = "number" -> <<ToString(v.n)>>
      [] v.t = "string" -> v.s
      [] OTHER          -> <<v.t>>

\* line 287: the rows the effect sets
MountAssignments(protocol) ==
    LET parsed == buildProtocolJson(protocol)
    IN  IF Truthy(parsed.assignments_table) THEN parsed.assignments_table.items ELSE <<>>

\* lines 333-335: parsed.assignments_table when the document is assembled
documentAssignments(protocol, edited) ==
    IF Len(edited) > 0 THEN Arr(edited)
    ELSE buildProtocolJson(protocol).assignments_table

\* the cells of one row when the missing number is the index itself
assignmentRowFromZero(a, idx, zone) ==
    [no          |-> StringOf(Coalesce(Field(a, "no"), Num(idx))),
     task        |-> Coalesce(Field(a, "task"), ND),
     responsible |-> Coalesce(Field(a, "responsible"), ND),
     due_date    |-> IF Truthy(Field(a, "due_date"))
                     THEN formatDateForProtocol(Field(a, "due_date"), zone)
                     ELSE ND]

\* lines 436-441: the cells of one row; idx counts from 0
assignmentRow(a, idx, zone) ==
    [no          |-> StringOf(Coalesce(Field(a, "no"), Num(idx + 1))),
     task        |-> Coalesce(Field(a, "task"), ND),
     responsible |-> Coalesce(Field(a, "responsible"), ND),
     due_date    |-> IF Truthy(Field(a, "due_date"))
                     THEN formatDateForProtocol(Field(a, "due_date"), zone)
                     ELSE ND]

\* lines 432-444: assignmentsRows, Threw when an entry is null or undefined
assignmentsRows(table, zone) ==
    IF IsArray(table) /\ Len(table.items) > 0
    THEN IF \E k \in 1..Len(table.items) : IsNullish(table.items[k]) THEN Threw
         ELSE [t |-> "rows",
               rows |-> [k \in 1..Len(table.items) |->
                            assignmentRow(table.items[k], k - 1, zone)]]
    ELSE [t |-> "rows", rows |-> <<>>]

\* lines 300-563: what generateDocument assembles
assembleDocument(protocol, buffer, date, assignments, zone) ==
    LET rows == assignmentsRows(documentAssignments(protocol, assignments), zone)
    IN  IF IsThrew(rows) THEN [NoDocument EXCEPT !.done = TRUE, !.threw = TRUE]
        ELSE [done |-> TRUE, threw |-> FALSE,
              paragraphs |-> reviewedSection(documentDecisions(protocol, buffer)),
              rows |-> rows.rows,
              dateLine |-> dateText(protocol, date, zone).s,
              signature |-> signatureDate(protocol, date, zone).s]

----------------------------------------------------------------------------
(* Inputs and specification of the document assembly *)

MaxBlurs == 2

TwoLines == Str(<<"Hire", "\n", "Train">>)

\* elements of a decisions list: texts, a text of two lines, a blank text, null
DecisionTexts == {Decision1, Decision2, TwoLines, Blank, Null}

DecisionLists == { Arr(l) : l \in SeqsUpTo(DecisionTexts, MaxDecisions) }

\* what the operator leaves in the editable block
EditedTexts == { <<>>, <<"Postpone">> }

DocumentProtocols ==
    { [EmptyProtocol EXCEPT !.contentJson = c, !.decisions = ds] :
        c \in { JsonOf([EmptyFull EXCEPT !.decisions = d]) :
                  d \in DecisionLists \cup {Undefined, Decision1} }
              \cup {Undefined, BrokenJson("x")},
        ds \in {Arr(<<>>), Arr(<<Decision1>>), Arr(<<TwoLines, Decision2>>)} }

\* line 267: the state after the first render
InitDocument ==
    /\ comp = "document"
    /\ protocolResult \in DocumentProtocols
    /\ protocolData = Undefined
    /\ dashParticipants = <<>>
    /\ built = NotBuilt
    /\ docStep = "constructed"
    /\ editedDecisions = joinDecisions(protocolResult.decisions.items)
    /\ reviewed = NoDocument
    /\ blurs = 0
    /\ transcript = <<>>
    /\ mapping = <<>>
    /\ mappedTranscript = NotYet
    /\ diarization = Undefined
    /\ labelsResult = NoLabels
    /\ FormIdle
    /\ ViewerIdle
    /\ FormatIdle
    /\ InlineIdle
    /\ editedDate = <<>>
    /\ editedAssignments = <<>>
    /\ timeZone = "east"
    /\ StorageIdle
    /\ DashIdle

\* lines 277-288: the effect of the mount
Mount ==
    /\ comp \in {"document", "sheet"}
    /\ docStep = "constructed"
    /\ ~IsThrew(buildProtocolJson(protocolResult))
    /\ editedDecisions' = MountBuffer(protocolResult)
    /\ docStep' = "mounted"
    /\ UNCHANGED <<reviewed, blurs>>
    /\ UNCHANGED <<comp, transcript, mapping>>
    /\ UNCHANGED annotVars
    /\ UNCHANGED labelVars
    /\ UNCHANGED formVars
    /\ UNCHANGED viewerVars
    /\ UNCHANGED normVars
    /\ UNCHANGED formatVars
    /\ UNCHANGED inlineVars
    /\ editedDate' = MountDate(protocolResult, timeZone)
    /\ editedAssignments' = MountAssignments(protocolResult)
    /\ UNCHANGED timeZone
    /\ UNCHANGED storageVars
    /\ UNCHANGED storageVars
    /\ UNCHANGED dashVars
    /\ UNCHANGED dashVars

\* lines 889-892: the editable block loses the focus, with the text it
\* rendered or with the text the operator typed
DecisionsBlur ==
    /\ comp = "document"
    /\ docStep = "mounted"
    /\ blurs < MaxBlurs
    /\ blurs' = blurs + 1
    /\ \E text \in EditedTexts
                   \cup {textContent(dataDecisions(protocolResult, editedDecisions).items, 1)} :
           editedDecisions' = text
    /\ UNCHANGED <<docStep, reviewed>>
    /\ UNCHANGED <<comp, transcript, mapping>>
    /\ UNCHANGED annotVars
    /\ UNCHANGED labelVars
    /\ UNCHANGED formVars
    /\ UNCHANGED viewerVars
    /\ UNCHANGED normVars
    /\ UNCHANGED formatVars
    /\ UNCHANGED inlineVars
    /\ UNCHANGED sheetVars
    /\ UNCHANGED storageVars
    /\ UNCHANGED dashVars

\* lines 300-563: generateDocument
GenerateDocument ==
    /\ comp \in {"document", "sheet"}
    /\ docStep = "mounted"
    /\ reviewed' = assembleDocument(protocolResult, editedDecisions, editedDate,
                                     editedAssignments, timeZone)
    /\ UNCHANGED <<docStep, editedDecisions, blurs>>
    /\ UNCHANGED <<comp, transcript, mapping>>
    /\ UNCHANGED annotVars
    /\ UNCHANGED labelVars
    /\ UNCHANGED formVars
    /\ UNCHANGED viewerVars
    /\ UNCHANGED normVars
    /\ UNCHANGED formatVars
    /\ UNCHANGED inlineVars
    /\ UNCHANGED sheetVars
    /\ UNCHANGED storageVars
    /\ UNCHANGED storageVars
    /\ UNCHANGED dashVars
    /\ UNCHANGED dashVars

\* dates as the payload or the store carries them: absent, empty, the
\* placeholder, days in ISO form, a month that does not exist, free text, a
\* day in display form
IsoDay(y, m, d) == Str(<<ToString(y), "-", padStart2(m), "-", padStart2(d)>>)
Soon == Str(<<"soon">>)
DateValues ==
    { Undefined, Str(<<>>), ND, IsoDay(2025, 11, 23), IsoDay(2025, 3, 1),
      IsoDay(2025, 1, 1), Str(<<"2025", "-", "13", "-", "45">>), Soon,
      Str(<<"23", ".", "11", ".", "2025">>) }

MaxAssignments == 3

\* entries of assignments_table: without no, with a number, with no: null,
\* and null in place of the entry
AssignmentValues ==
    { Assignment(Undefined, Str(<<"Hire">>), Str(<<"Ivan">>), IsoDay(2025, 3, 1)),
      Assignment(Num(7), Str(<<"Train">>), Undefined, Undefined),
      Assignment(Null, Undefined, Str(<<"Petr">>), Soon),
      Null }
AssignmentLists == { Arr(l) : l \in SeqsUpTo(AssignmentValues, MaxAssignments) }

\* protocols that differ in their dates, and protocols that differ in their
\* assignments
SheetProtocols ==
    { [EmptyProtocol EXCEPT !.contentJson = c, !.date = pd] :
        c \in { JsonOf([EmptyFull EXCEPT !.date = d]) : d \in DateValues } \cup {Undefined},
        pd \in {Undefined, IsoDay(2025, 11, 23)} }
    \cup { [EmptyProtocol EXCEPT !.contentJson = JsonOf([EmptyFull EXCEPT !.assignments_table = a])] :
             a \in AssignmentLists \cup {Undefined} }

\* what the operator leaves in the date block and in a task cell
DateTexts == { <<>>, <<"24", ".", "11", ".", "2025">>, <<"soon">> }
TaskTexts == { <<"Report">> }

InitSheet ==
    /\ comp = "sheet"
    /\ protocolResult \in SheetProtocols
    /\ timeZone \in {"west", "east"}
    /\ protocolData = Undefined
    /\ dashParticipants = <<>>
    /\ built = NotBuilt
    /\ docStep = "constructed"
    /\ editedDecisions = joinDecisions(protocolResult.decisions.items)
    /\ editedDate = <<>>
    /\ editedAssignments = <<>>
    /\ reviewed = NoDocument
    /\ blurs = 0
    /\ TextIdle
    /\ FormIdle
    /\ ViewerIdle
    /\ FormatIdle
    /\ InlineIdle
    /\ StorageIdle
    /\ DashIdle

\* lines 753-756: the date block loses the focus, with the text it rendered
\* or with the text the operator typed
DateBlur ==
    /\ comp = "sheet"
    /\ docStep = "mounted"
    /\ blurs < MaxBlurs
    /\ blurs' = blurs + 1
    /\ \E text \in DateTexts \cup {dataDate(protocolResult, editedDate, timeZone).s} :
           editedDate' = text
    /\ UNCHANGED <<docStep, editedDecisions, reviewed, editedAssignments, timeZone>>
    /\ UNCHANGED <<comp, transcript, mapping>>
    /\ UNCHANGED annotVars
    /\ UNCHANGED labelVars
    /\ UNCHANGED formVars
    /\ UNCHANGED viewerVars
    /\ UNCHANGED normVars
    /\ UNCHANGED formatVars
    /\ UNCHANGED inlineVars
    /\ UNCHANGED storageVars
    /\ UNCHANGED dashVars

\* lines 932-938: the task cell of a row loses the focus; the rows rendered
\* are editedAssignments when it is not empty, else those of the payload
TaskBlur ==
    /\ comp = "sheet"
    /\ docStep = "mounted"
    /\ blurs < MaxBlurs
    /\ blurs' = blurs + 1
    /\ \E idx \in 1..Len(editedAssignments) : \E text \in TaskTexts :
           /\ ~IsNullish(editedAssignments[idx])
           /\ editedAssignments' =
                  [editedAssignments EXCEPT ![idx].task = Or(Str(text), ND)]
    /\ UNCHANGED <<docStep, editedDecisions, reviewed, editedDate, timeZone>>
    /\ UNCHANGED <<comp, transcript, mapping>>
    /\ UNCHANGED annotVars
    /\ UNCHANGED labelVars
    /\ UNCHANGED formVars
    /\ UNCHANGED viewerVars
    /\ UNCHANGED normVars
    /\ UNCHANGED formatVars
    /\ UNCHANGED inlineVars
    /\ UNCHANGED storageVars
    /\ UNCHANGED dashVars

NextSheet ==
    \/ Mount
    \/ DateBlur
    \/ TaskBlur
    \/ GenerateDocument

SpecSheet == InitSheet /\ [][NextSheet]_vars

NextDocument ==
    \/ Mount
    \/ DecisionsBlur
    \/ GenerateDocument

SpecDocument == InitDocument /\ [][NextDocument]_vars

----------------------------------------------------------------------------
(* Claims about the document *)

\* the decisions of the normalized model
ModelDecisions == buildProtocolJson(protocolResult).decisions.items

\* the text of a decision as the document shows it
DecisionText(d) == IF d.t = "string" THEN d.s ELSE ToStr(Or(d, ND))

\* C12: when the operator has not touched the decisions buffer, the reviewed
\* section has one paragraph per decision of the normalized model, numbered
\* from 1 in the model's order and carrying the decision's text; the buffer
\* gives back the list it was filled from.
C12_ReviewedIsModelDecisions ==
    [][ (GenerateDocument /\ editedDecisions = MountBuffer(protocolResult)
                          /\ Len(ModelDecisions) >= 1) =>
            /\ documentDecisions(protocolResult, editedDecisions).items = ModelDecisions
            /\ Len(reviewed'.paragraphs) = Len(ModelDecisions)
            /\ \A k \in 1..Len(ModelDecisions) :
                   reviewed'.paragraphs[k]
                       = <<ToString(k), ". ">> \o DecisionText(ModelDecisions[k]) ]_vars

\* a day in canonical ISO form
IsIsoDay(v) ==
    /\ v.t = "string"
    /\ Len(v.s) = 5
    /\ IsDigits4(v.s[1]) /\ v.s[2] = "-" /\ IsDigits2(v.s[3])
    /\ v.s[4] = "-" /\ IsDigits2(v.s[5])
    /\ Value2(v.s[3]) \in 1..12
    /\ Value2(v.s[5]) \in 1..DaysIn(Value2(v.s[3]), Value4(v.s[1]))

\* dd.mm.yyyy of an ISO day, the placeholder for every other value
RenderedDate(v) ==
    IF IsIsoDay(v) THEN <<v.s[5], ".", v.s[3], ".", v.s[1]>> ELSE ND.s

\* C22: the date line and the date under the signature of an assembled
\* document both show the date of the document as dd.mm.yyyy when it is a
\* day in ISO form, and the placeholder when it is absent or not a date.
C22_DateRendered ==
    [][ (GenerateDocument /\ comp = "sheet" /\ ~reviewed'.threw) =>
            LET date == documentDate(protocolResult, editedDate)
            IN  /\ reviewed'.dateLine = RenderedDate(date)
                /\ reviewed'.signature = RenderedDate(date) ]_vars

\* the entries of the table the document is assembled from
DocumentTable == documentAssignments(protocolResult, editedAssignments).items

\* C23: every row of the assignments table of an assembled document carries
\* the no of its assignment when the assignment has one (a no that is null
\* counts as none), and else the position of the assignment counted from 1.
C23_RowNumbers ==
    [][ (GenerateDocument /\ comp = "sheet" /\ ~reviewed'.threw) =>
            /\ Len(reviewed'.rows) = Len(DocumentTable)
            /\ \A k \in 1..Len(DocumentTable) :
                   LET no == Field(DocumentTable[k], "no")
                   IN  reviewed'.rows[k].no =
                           IF IsNullish(no) THEN <<ToString(k)>> ELSE StringOf(no) ]_vars

\* a document of three rows: the second carries its own number 7 and the
\* third, which has none, its position 3
C23_Witness ==
    /\ comp = "sheet"
    /\ reviewed.done /\ ~reviewed.threw
    /\ Len(reviewed.rows) = 3
    /\ Len(editedAssignments) = 3
    /\ Field(editedAssignments[2], "no") = Num(7)
    /\ Field(editedAssignments[3], "no") = Undefined
    /\ reviewed.rows[2].no = <<"7">>
    /\ reviewed.rows[3].no = <<"3">>

----------------------------------------------------------------------------
(* Claims about the tiers of speakerLabels *)

\* the list under the first of the keys utterances, segments, diarization
\* that holds a non-empty list
ListedSegments(d) ==
    LET NonEmpty(v) == v.t = "array" /\ Len(v.items) > 0
    IN  IF d.t # "payload" THEN <<>>
        ELSE IF NonEmpty(d.utterances) THEN d.utterances.items
        ELSE IF NonEmpty(d.segments) THEN d.segments.items
        ELSE IF NonEmpty(d.diarization) THEN d.diarization.items
        ELSE <<>>

\* a field that carries an identifier: it is there and is not the empty string
Carried(v) == ~IsNullish(v) /\ v # Str(<<>>)

\* the first of the fields speaker, spk, label, speaker_label that is present
FirstPresent(seg) ==
    IF Carried(seg.speaker) THEN seg.speaker
    ELSE IF Carried(seg.spk) THEN seg.spk
    ELSE IF Carried(seg.label) THEN seg.label
    ELSE IF Carried(seg.speaker_label) THEN seg.speaker_label
    ELSE Undefined

\* the label of an identifier: trimmed, and canonical when it is one word of
\* upper-case letters and digits
LabelOf(s) ==
    LET id == Trim(ToStr(s))
    IN  IF IsUpperAlnum(id) THEN <<"Spiker", " ">> \o id ELSE id

RECURSIVE ListedLabels(_, _, _)
ListedLabels(segs, k, labels) ==
    IF k > Len(segs) THEN labels
    ELSE IF IsNullish(FirstPresent(segs[k])) THEN ListedLabels(segs, k + 1, labels)
    ELSE ListedLabels(segs, k + 1, Add(labels, LabelOf(FirstPresent(segs[k]))))

\* C13: when one of the keys utterances, segments, diarization holds a
\* non-empty list of segments and a segment carries an identifier under one of
\* the fields speaker, spk, label, speaker_label, the labels are those of the
\* segments, each taken from the first field present, and the transcript adds
\* none.
C13_LabelsFromDiarization ==
    LET segs == ListedSegments(diarization)
    IN  (/\ Extracted
         /\ \A k \in 1..Len(segs) : ~IsNullish(segs[k])
         /\ ListedLabels(segs, 1, <<>>) # <<>>) =>
            /\ ~labelsResult.threw
            /\ labelsResult.labels = Sort(ListedLabels(segs, 1, <<>>))

\* the speaker token a label stands for, in upper case: the label without
\* the word in front of it and without blanks, when that is one letter or
\* digit; "" when the label is a name or a channel
TokenOf(label) ==
    LET rest == IF Len(label) >= 2 /\ Fold(label[1]) \in {"Spiker", "Speaker"}
                   /\ IsWs(label[2])
                THEN Trim(Tail(label)) ELSE Trim(label)
    IN  IF Len(rest) = 1 /\ Fold(rest[1]) \in UpperAlnumTokens THEN Fold(rest[1]) ELSE ""

\* C14: every label that stands for a speaker token t is the canonical label
\* of t, whichever tier found it and whatever the letter case of the input,
\* so no two labels of a result stand for the same token.
C14_OneLabelPerToken ==
    (Extracted /\ ~labelsResult.threw) =>
        LET l == labelsResult.labels
        IN  /\ \A k \in 1..Len(l) :
                   TokenOf(l[k]) # "" => l[k] = <<"Spiker", " ", TokenOf(l[k])>>
            /\ \A j, k \in 1..Len(l) :
                   (j # k /\ TokenOf(l[j]) # "") => TokenOf(l[j]) # TokenOf(l[k])

----------------------------------------------------------------------------
(* Claims about the messages of onGenerate *)

\* C15: onGenerate called while the roster is empty sends no request, is not
\* submitting afterwards, and leaves the empty-roster message, which is not
\* the message for unmapped labels.
C15_EmptyRosterMessage ==
    [][ (OnGenerate /\ Len(participants) = 0) =>
            /\ requests' = requests
            /\ ~submitting'
            /\ error' = EmptyRosterMsg
            /\ error' # UnmappedMsg ]_vars

----------------------------------------------------------------------------
(* Claims about applying a mapping twice *)

\* a label of an entry with a non-blank name is the designation of a line of text
StillDesignated(text) ==
    \E e \in ActiveEntries : \E k \in 1..Len(SplitLines(text)) :
        LET line == SplitLines(text)[k]
        IN  ColonAt(line) # 0 /\ MatchedBy(LineDesignation(line), mapping[e][1])

\* C16: when no mapped label is the designation of a line of the result,
\* applying the same mapping to the result gives the result again.
C16_Idempotent ==
    (Applied /\ ~StillDesignated(mappedTranscript)) =>
        applyMappingToTranscript(mappedTranscript, mapping) = mappedTranscript

\* the mapping rewrote a designation, no mapped label is left, and the second
\* application returns its input
C16_Witness ==
    /\ Applied
    /\ mappedTranscript # transcript
    /\ StillDesignated(transcript)
    /\ ~StillDesignated(mappedTranscript)
    /\ Cardinality(ActiveEntries) = 2
    /\ applyMappingToTranscript(mappedTranscript, mapping) = mappedTranscript

----------------------------------------------------------------------------
(* formatProtocolContent (part_001, lines 116-260)                          *)
(* A line is a sequence of tokens; BulletChar stands for U+2022.            *)

BulletChar == "(bullet)"

\* the number of dashes of a token made of dashes only, else 0
Dashes(tok) ==
    CASE tok = "-" -> 1 [] tok = "--" -> 2 [] tok = "---" -> 3 [] tok = "----" -> 4
      [] OTHER -> 0

RECURSIVE DashCount(_)
DashCount(t) == IF t = <<>> THEN 0 ELSE Dashes(Head(t)) + DashCount(Tail(t))

\* line 144: trimmed === "---" || /^-{3,}$/.test(trimmed)
IsRule(trimmed) ==
    /\ trimmed # <<>>
    /\ \A k \in 1..Len(trimmed) : Dashes(trimmed[k]) > 0
    /\ DashCount(trimmed) >= 3

\* startsWith that looks at the first token only
startsWithFirst(trimmed, prefix) ==
    Len(trimmed) >= 1 /\ trimmed[1] = prefix[1]

\* trimmed.startsWith(prefix)
startsWith(trimmed, prefix) ==
    Len(trimmed) >= Len(prefix) /\ SubSeq(trimmed, 1, Len(prefix)) = prefix

\* a block of the result: its kind, the lines of the content that produced it,
\* and what it shows
Block(kind, lines, time, label, indent, text, items) ==
    [kind |-> kind, lines |-> lines, time |-> time, label |-> label, indent |-> indent,
     text |-> text, items |-> items]

\* lines 187-189: trimmed.match(transcriptRegex), the regular expression
\*   /^\[(\d{2}:\d{2})\s*-\s*(\d{2}:\d{2})\]\s*Spiker\s+([A-Z0-9]+):\s*(.+)$/i
\* The result is the index of the speaker token, 0 when there is no match.
transcriptMatch(trimmed) ==
    IF trimmed # <<>> /\ IsTimestamp(trimmed[1])
    THEN LET j == SkipWs(trimmed, 2)
             k == SkipWs(trimmed, j + 1)
         IN  IF /\ j + 1 <= Len(trimmed) /\ Fold(trimmed[j]) = "Spiker" /\ IsWs(trimmed[j + 1])
                /\ k + 1 < Len(trimmed)
                /\ AlnumPrefix(trimmed[k]) # "" /\ AlnumPrefix(trimmed[k]) = trimmed[k]
                /\ trimmed[k + 1] = ":"
             THEN k ELSE 0
    ELSE 0

\* the tokens (\d+(?:\.\d+)*\.) matches, and the number of dots in them
NumberTokens == {"1.", "2.", "1.1."}
Level(number) == IF number = "1.1." THEN 2 ELSE 1

\* lines 211-212: trimmed.match(/^(\d+(?:\.\d+)*\.)\s*(.+)$/), as
\* [number, text], number "" when there is no match; "1.1." alone matches
\* with the number "1." and the text "1."
numberedMatch(trimmed) ==
    IF trimmed # <<>> /\ trimmed[1] \in NumberTokens /\ Len(trimmed) >= 2
    THEN [number |-> trimmed[1], text |-> SubSeq(trimmed, SkipWs(trimmed, 2), Len(trimmed))]
    ELSE IF trimmed = <<"1.1.">> THEN [number |-> "1.", text |-> <<"1.">>]
    ELSE [number |-> "", text |-> <<>>]

\* line 239: /^(Poruchenie|Otvetstvennyj|Srok|Otvetstvennye|Sroki):/i
InstructionWords ==
    {"Poruchenie", "poruchenie", "Otvetstvennyj", "otvetstvennyj", "Srok", "srok",
     "Otvetstvennye", "otvetstvennye", "Sroki", "sroki"}
IsInstruction(trimmed) ==
    Len(trimmed) >= 2 /\ trimmed[1] \in InstructionWords /\ trimmed[2] = ":"

\* flushList without the test of currentList.length
flushListAlways(elements, currentList) ==
    Append(elements,
           Block("BulletList", [k \in 1..Len(currentList) |-> currentList[k].line],
                 "", "", "", <<>>, [k \in 1..Len(currentList) |-> currentList[k].item]))

\* lines 121-138: flushList, the elements after it; the caller empties currentList
flushList(elements, currentList) ==
    IF Len(currentList) > 0
    THEN Append(elements,
                Block("BulletList", [k \in 1..Len(currentList) |-> currentList[k].line],
                      "", "", "", <<>>, [k \in 1..Len(currentList) |-> currentList[k].item]))
    ELSE elements

\* lines 140-257: the callback of lines.forEach, from the state st = [elements,
\* currentList] to the state after the line
FormatLine(st, line, lineIdx) ==
    LET trimmed == Trim(line)
        flushed == flushList(st.elements, st.currentList)
        Push(block) == [elements |-> Append(flushed, block), currentList |-> <<>>]
        tm == transcriptMatch(trimmed)
        nm == numberedMatch(trimmed)
        item == Trim(Tail(trimmed))
    IN  IF trimmed = <<>> \/ IsRule(trimmed)
        THEN IF trimmed = <<>> /\ Len(flushed) > 0
             THEN Push(Block("Spacer", <<lineIdx>>, "", "", "", <<>>, <<>>))
             ELSE [elements |-> flushed, currentList |-> <<>>]
        ELSE IF startsWith(trimmed, <<"#", " ">>)
        THEN Push(Block("H1", <<lineIdx>>, "", "", "", Trim(SubSeq(trimmed, 3, Len(trimmed))), <<>>))
        ELSE IF startsWith(trimmed, <<"##", " ">>)
        THEN Push(Block("H2", <<lineIdx>>, "", "", "", Trim(SubSeq(trimmed, 3, Len(trimmed))), <<>>))
        ELSE IF startsWith(trimmed, <<"###", " ">>)
        THEN Push(Block("H3", <<lineIdx>>, "", "", "", Trim(SubSeq(trimmed, 3, Len(trimmed))), <<>>))
        ELSE IF tm # 0
        THEN Push(Block("TranscriptUtterance", <<lineIdx>>, trimmed[1], trimmed[tm], "",
                        SubSeq(trimmed, SkipWs(trimmed, tm + 2), Len(trimmed)), <<>>))
        ELSE IF nm.number # ""
        THEN Push(Block("Numbered", <<lineIdx>>, "", nm.number,
                        IF Level(nm.number) = 1 THEN "ml-6" ELSE "ml-12", nm.text, <<>>))
        ELSE IF startsWith(trimmed, <<"-", " ">>) \/ startsWith(trimmed, <<BulletChar>>)
        THEN [elements |-> st.elements,
              currentList |-> IF item # <<>>
                              THEN Append(st.currentList, [item |-> item, line |-> lineIdx])
                              ELSE st.currentList]
        ELSE IF IsInstruction(trimmed)
        THEN Push(Block("Instruction", <<lineIdx>>, "", "", "ml-12", trimmed, <<>>))
        ELSE Push(Block("Paragraph", <<lineIdx>>, "", "", "", trimmed, <<>>))

RECURSIVE FormatLines(_, _, _)
FormatLines(lines, k, st) ==
    IF k > Len(lines) THEN st
    ELSE FormatLines(lines, k + 1, FormatLine(st, lines[k], k))

\* lines 116-260: null for no content, else the div with the elements
formatProtocolContent(content_) ==
    IF ~Truthy(content_) THEN Null
    ELSE LET st == FormatLines(SplitLines(content_.s), 1,
                               [elements |-> <<>>, currentList |-> <<>>])
         IN  [t |-> "div", elements |-> flushList(st.elements, st.currentList)]

----------------------------------------------------------------------------
(* Inputs and specification of the formatter *)

MaxContentLines == 3

\* lines of a protocol text: blank, rules, headings, utterances, numbered
\* items, bullets, an instruction, and lines no rule knows
ContentLines ==
    { <<>>,
      <<"---">>,
      <<"--">>,
      <<"#", " ", "Title">>,
      <<"##", " ", "AGENDA">>,
      <<"###", " ", "Sub", " ">>,
      <<TS1, " ", "Spiker", " ", "A", ":", " ", "hello">>,
      <<TS1, " ", "Ivan", ":", " ", "hello">>,
      <<"1.", " ", "Approve">>,
      <<"1.1.", "Sub">>,
      <<"-", " ", "item">>,
      <<" ", BulletChar, " ", "other">>,
      <<BulletChar>>,
      <<"-", "item">>,
      <<"srok", ":", " ", "May">>,
      <<"hello">> }

Documents ==
    {Undefined, Null, Str(<<>>)}
    \cup { Str(Join(ls)) : ls \in SeqsUpTo(ContentLines, MaxContentLines) \ {<<>>} }

InitFormat ==
    /\ comp = "format"
    /\ content \in Documents
    /\ formatted = NotFormatted
    /\ transcript = <<>>
    /\ mapping = <<>>
    /\ mappedTranscript = NotYet
    /\ diarization = Undefined
    /\ labelsResult = NoLabels
    /\ FormIdle
    /\ ViewerIdle
    /\ NormIdle
    /\ DocIdle
    /\ InlineIdle
    /\ SheetIdle
    /\ StorageIdle
    /\ DashIdle

\* the protocol text is rendered
FormatProtocolContent ==
    /\ comp = "format"
    /\ formatted = NotFormatted
    /\ formatted' = formatProtocolContent(content)
    /\ UNCHANGED <<comp, transcript, mapping, content>>
    /\ UNCHANGED annotVars
    /\ UNCHANGED labelVars
    /\ UNCHANGED formVars
    /\ UNCHANGED viewerVars
    /\ UNCHANGED normVars
    /\ UNCHANGED docVars
    /\ UNCHANGED inlineVars
    /\ UNCHANGED sheetVars
    /\ UNCHANGED storageVars
    /\ UNCHANGED dashVars

NextFormat == FormatProtocolContent

SpecFormat == InitFormat /\ [][NextFormat]_vars

----------------------------------------------------------------------------
(* Claims about formatProtocolContent *)

\* the content was rendered into blocks
Rendered == comp = "format" /\ formatted # NotFormatted /\ formatted.t = "div"

InputLines == SplitLines(content.s)
Blocks == formatted.elements

BlankLine(k) == Trim(InputLines[k]) = <<>>
RuleLine(k) == IsRule(Trim(InputLines[k]))

\* the blocks a line of the content produced, as indices into Blocks
BlocksOf(k) == { b \in 1..Len(Blocks) : \E l \in 1..Len(Blocks[b].lines) : Blocks[b].lines[l] = k }

\* C17: the blank lines of a run produce at most one Spacer between them, a
\* rule line produces no block, and no bullet list reaches across a blank
\* line or a rule line.
C17_OneSpacerPerRun ==
    Rendered =>
        /\ \A a, b \in 1..Len(InputLines) :
               (a <= b /\ \A k \in a..b : BlankLine(k)) =>
                   Cardinality({ s \in 1..Len(Blocks) :
                                   /\ Blocks[s].kind = "Spacer"
                                   /\ Blocks[s].lines[1] \in a..b }) <= 1
        /\ \A k \in 1..Len(InputLines) : RuleLine(k) => BlocksOf(k) = {}
        /\ \A b \in 1..Len(Blocks) : \A k \in 1..Len(InputLines) :
               (Blocks[b].kind = "BulletList" /\ (BlankLine(k) \/ RuleLine(k))) =>
                   ~(Blocks[b].lines[1] < k /\ k < Blocks[b].lines[Len(Blocks[b].lines)])

\* the line reads "[mm:ss - mm:ss] <designation>: <text>"
UtteranceLine(k) ==
    LET t == Trim(InputLines[k])
    IN  /\ HasTimestamp(t)
        /\ ColonAt(t) # 0
        /\ LineDesignation(t) # <<>>
        /\ Trim(LineText(t)) # <<>>

\* C18: every line "[mm:ss - mm:ss] <designation>: <text>" produces one block,
\* a TranscriptUtterance with the text of the line, whether the designation is
\* "Spiker X" or a name.
C18_UtteranceForEveryDesignation ==
    Rendered =>
        \A k \in 1..Len(InputLines) :
            UtteranceLine(k) =>
                /\ Cardinality(BlocksOf(k)) = 1
                /\ \A b \in BlocksOf(k) :
                       /\ Blocks[b].kind = "TranscriptUtterance"
                       /\ Blocks[b].text = Trim(LineText(Trim(InputLines[k])))

\* the line is a bullet line, and the item it holds
BulletLine(k) ==
    LET t == Trim(InputLines[k])
    IN  /\ t # <<>>
        /\ \/ t[1] = BulletChar
           \/ Len(t) >= 2 /\ t[1] = "-" /\ t[2] = " "
ItemOf(k) == Trim(Tail(Trim(InputLines[k])))
HoldsItem(k) == BulletLine(k) /\ ItemOf(k) # <<>>

\* the lines j..k are bullet lines, one run
SameRun(j, k) == \A l \in j..k : BulletLine(l)

FirstLine(b) == Blocks[b].lines[1]
LastLine(b)  == Blocks[b].lines[Len(Blocks[b].lines)]

\* C19: every BulletList holds, in the order of the content, the non-empty
\* items of one maximal run of consecutive bullet lines and is not empty;
\* every bullet line with an item is in exactly one list, once; and the
\* blocks follow the order of their lines, so a list stands in front of the
\* block of the line that ended its run.
C19_OneListPerRun ==
    Rendered =>
        /\ \A b \in 1..Len(Blocks) :
               Blocks[b].kind = "BulletList" =>
                   /\ Len(Blocks[b].items) >= 1
                   /\ Len(Blocks[b].lines) = Len(Blocks[b].items)
                   /\ \A i \in 1..Len(Blocks[b].lines) :
                          /\ HoldsItem(Blocks[b].lines[i])
                          /\ Blocks[b].items[i] = ItemOf(Blocks[b].lines[i])
                          /\ i > 1 => Blocks[b].lines[i - 1] < Blocks[b].lines[i]
                   /\ SameRun(FirstLine(b), LastLine(b))
                   /\ \A k \in 1..Len(InputLines) :
                          (/\ HoldsItem(k)
                           /\ \/ k < FirstLine(b) /\ SameRun(k, FirstLine(b))
                              \/ k > LastLine(b) /\ SameRun(LastLine(b), k)
                              \/ FirstLine(b) <= k /\ k <= LastLine(b))
                          => b \in BlocksOf(k)
        /\ \A k \in 1..Len(InputLines) :
               /\ HoldsItem(k) =>
                      /\ Cardinality(BlocksOf(k)) = 1
                      /\ \A b \in BlocksOf(k) : Blocks[b].kind = "BulletList"
               /\ (BulletLine(k) /\ ~HoldsItem(k)) => BlocksOf(k) = {}
        /\ \A b, c \in 1..Len(Blocks) : b < c => LastLine(b) < FirstLine(c)

\* a list with the items of two bullet lines stands in front of the paragraph
\* that ended its run
C19_Witness ==
    /\ Rendered
    /\ Len(Blocks) = 2
    /\ Blocks[1].kind = "BulletList"
    /\ Blocks[1].lines = <<1, 2>>
    /\ Blocks[1].items[1] # Blocks[1].items[2]
    /\ Blocks[2].kind = "Paragraph"
    /\ Blocks[2].lines = <<3>>

\* the line is a heading: "# ", "## " or "### " in front
HeadingLine(k) ==
    LET t == Trim(InputLines[k])
    IN  Len(t) >= 2 /\ t[1] \in {"#", "##", "###"} /\ t[2] = " "

\* no specific rule applies to the line
NoRule(k) ==
    LET t == Trim(InputLines[k])
    IN  /\ ~BlankLine(k)
        /\ ~RuleLine(k)
        /\ ~HeadingLine(k)
        /\ transcriptMatch(t) = 0
        /\ numberedMatch(t).number = ""
        /\ ~BulletLine(k)
        /\ ~IsInstruction(t)

\* C20: formatProtocolContent returns for every content; for the empty string
\* it returns no blocks; and every line no specific rule applies to gives one
\* block, a Paragraph with the trimmed text of the line.
C20_TotalWithParagraphFallback ==
    (comp = "format" /\ formatted # NotFormatted) =>
        /\ formatted.t \in {"null", "div"}
        /\ content = Str(<<>>) => formatted.t = "null"
        /\ (content.t = "string" /\ content # Str(<<>>)) => formatted.t = "div"
        /\ Rendered =>
               \A k \in 1..Len(InputLines) :
                   NoRule(k) =>
                       /\ Cardinality(BlocksOf(k)) = 1
                       /\ \A b \in BlocksOf(k) :
                              /\ Blocks[b].kind = "Paragraph"
                              /\ Blocks[b].text = Trim(InputLines[k])

\* a line with a dash and no space behind it, which is no bullet line and no
\* rule, was rendered as a paragraph between two other blocks
C20_Witness ==
    /\ Rendered
    /\ Len(InputLines) = 3
    /\ NoRule(2)
    /\ Trim(InputLines[2])[1] = "-"
    /\ Len(Blocks) = 3
    /\ Blocks[2].kind = "Paragraph"
    /\ Blocks[2].text = Trim(InputLines[2])
    /\ Blocks[1].kind = "BulletList"

----------------------------------------------------------------------------
(* formatInlineMarkdown (part_001): bold and italic spans of one line.      *)
(* The text is a sequence of characters; offsets are those of JavaScript,   *)
(* counted from 0, and a match covers the offsets start .. end - 1.         *)

\* the character at a JavaScript offset
CharAt(text, i) == text[i + 1]

SetMin(S) == CHOOSE x \in S : \A y \in S : x <= y

\* text.substring(a, b)
substring(text, a, b) == SubSeq(text, a + 1, b)

\* /\*\*(.+?)\*\*/ matches at offset i with the closing pair at offset j
BoldAt(text, i, j) ==
    /\ i >= 0
    /\ j >= i + 3
    /\ j + 2 <= Len(text)
    /\ CharAt(text, i) = "*" /\ CharAt(text, i + 1) = "*"
    /\ CharAt(text, j) = "*" /\ CharAt(text, j + 1) = "*"

\* /_(.+?)_/ matches at offset i with the closing underscore at offset j
ItalicAt(text, i, j) ==
    /\ i >= 0
    /\ j >= i + 2
    /\ j + 1 <= Len(text)
    /\ CharAt(text, i) = "_"
    /\ CharAt(text, j) = "_"

\* boldRegex.exec(text) with lastIndex = from: the leftmost start, and for it
\* the nearest closing pair (the quantifier is lazy); Null when none
execBold(text, from) ==
    LET starts == { i \in from..(Len(text) - 1) :
                        \E j \in 0..Len(text) : BoldAt(text, i, j) }
    IN  IF starts = {} THEN Null
        ELSE LET i == SetMin(starts)
                 j == SetMin({ jj \in 0..Len(text) : BoldAt(text, i, jj) })
             IN  [start |-> i, end |-> j + 2, type |-> "bold",
                  text |-> substring(text, i + 2, j)]

\* italicRegex.exec(text) with lastIndex = from
execItalic(text, from) ==
    LET starts == { i \in from..(Len(text) - 1) :
                        \E j \in 0..Len(text) : ItalicAt(text, i, j) }
    IN  IF starts = {} THEN Null
        ELSE LET i == SetMin(starts)
                 j == SetMin({ jj \in 0..Len(text) : ItalicAt(text, i, jj) })
             IN  [start |-> i, end |-> j + 1, type |-> "italic",
                  text |-> substring(text, i + 1, j)]

\* while ((match = boldRegex.exec(text)) !== null) matches.push(...)
RECURSIVE boldMatches(_, _)
boldMatches(text, from) ==
    LET m == execBold(text, from)
    IN  IF m = Null THEN <<>> ELSE <<m>> \o boldMatches(text, m.end)

\* while ((match = italicRegex.exec(text)) !== null) matches.push(...)
RECURSIVE italicMatches(_, _)
italicMatches(text, from) ==
    LET m == execItalic(text, from)
    IN  IF m = Null THEN <<>> ELSE <<m>> \o italicMatches(text, m.end)

\* matches left in the order they were pushed: the bold ones first
pushOrder(matches) == matches

\* matches.sort((a, b) => a.start - b.start): stable, ascending start
RECURSIVE sortByStart(_)
sortByStart(matches) ==
    IF matches = <<>> THEN <<>>
    ELSE LET lo == SetMin({ matches[k].start : k \in 1..Len(matches) })
             i == SetMin({ k \in 1..Len(matches) : matches[k].start = lo })
         IN  <<matches[i]>>
                 \o sortByStart(SubSeq(matches, 1, i - 1)
                                    \o SubSeq(matches, i + 1, Len(matches)))

\* the test of the inner loop: current against one accepted match
overlapsWith(current, filtered) ==
    \/ current.start >= filtered.start /\ current.start < filtered.end
    \/ current.end > filtered.start /\ current.end <= filtered.end
    \/ current.start <= filtered.start /\ current.end >= filtered.end

\* the loop that builds filteredMatches
RECURSIVE filterMatches(_, _, _)
filterMatches(matches, i, filteredMatches) ==
    IF i > Len(matches) THEN filteredMatches
    ELSE LET current == matches[i]
             overlaps == \E k \in 1..Len(filteredMatches) :
                             overlapsWith(current, filteredMatches[k])
         IN  filterMatches(matches, i + 1,
                 IF overlaps THEN filteredMatches
                 ELSE Append(filteredMatches, current))

\* filteredMatches.forEach: the parts in front of and for each accepted match
RECURSIVE buildParts(_, _, _, _)
buildParts(text, filteredMatches, k, st) ==
    IF k > Len(filteredMatches) THEN st
    ELSE LET match == filteredMatches[k]
             plainText == substring(text, st.lastIndex, match.start)
             before == IF match.start > st.lastIndex /\ plainText # <<>>
                       THEN Append(st.parts, [kind |-> "span", text |-> plainText])
                       ELSE st.parts
             own == IF match.type = "bold"
                    THEN [kind |-> "strong", text |-> match.text]
                    ELSE [kind |-> "em", text |-> match.text]
         IN  buildParts(text, filteredMatches, k + 1,
                 [parts |-> Append(before, own), lastIndex |-> match.end])

\* formatInlineMarkdown(text); the text of a strong part is formatted again
\* by the same function when the part is rendered
formatInlineMarkdown(text) ==
    IF text = <<>> THEN [t |-> "null", matches |-> <<>>, accepted |-> <<>>, parts |-> <<>>]
    ELSE LET found == boldMatches(text, 0) \o italicMatches(text, 0)
             matches == sortByStart(found)
             filteredMatches == filterMatches(matches, 1, <<>>)
             st == buildParts(text, filteredMatches, 1, [parts |-> <<>>, lastIndex |-> 0])
             rest == substring(text, st.lastIndex, Len(text))
             parts == IF st.lastIndex < Len(text) /\ rest # <<>>
                      THEN Append(st.parts, [kind |-> "span", text |-> rest])
                      ELSE st.parts
         IN  [t |-> IF parts = <<>> THEN "text" ELSE "fragment",
              matches |-> matches, accepted |-> filteredMatches, parts |-> parts]

MaxInlineLen == 6
InlineChars == {"*", "_", "a"}
InlineTexts == SeqsUpTo(InlineChars, MaxInlineLen)

InitInline ==
    /\ comp = "inline"
    /\ inlineText \in InlineTexts
    /\ inline = NotInlined
    /\ TextIdle
    /\ FormIdle
    /\ ViewerIdle
    /\ NormIdle
    /\ DocIdle
    /\ FormatIdle
    /\ SheetIdle
    /\ StorageIdle
    /\ DashIdle

\* one line is formatted
FormatInlineMarkdown ==
    /\ comp = "inline"
    /\ inline = NotInlined
    /\ inline' = formatInlineMarkdown(inlineText)
    /\ UNCHANGED <<comp, transcript, mapping, inlineText>>
    /\ UNCHANGED annotVars
    /\ UNCHANGED labelVars
    /\ UNCHANGED formVars
    /\ UNCHANGED viewerVars
    /\ UNCHANGED normVars
    /\ UNCHANGED docVars
    /\ UNCHANGED formatVars
    /\ UNCHANGED sheetVars
    /\ UNCHANGED storageVars
    /\ UNCHANGED dashVars

NextInline == FormatInlineMarkdown

SpecInline == InitInline /\ [][NextInline]_vars

----------------------------------------------------------------------------
(* Claims about formatInlineMarkdown *)

Inlined == comp = "inline" /\ inline # NotInlined /\ inlineText # <<>>

\* the bold and the italic matches found over the whole string
FoundMatches ==
    LET b == boldMatches(inlineText, 0)
        i == italicMatches(inlineText, 0)
    IN  { b[k] : k \in 1..Len(b) } \cup { i[k] : k \in 1..Len(i) }

AcceptedMatches == { inline.accepted[k] : k \in 1..Len(inline.accepted) }

\* two spans share an offset
Intersects(a, b) == a.start < b.end /\ b.start < a.end

----------------------------------------------------------------------------
(* savePermanentParticipants and loadPermanentParticipants (part_001,       *)
(* lines 9-95) over the item permanent_participants of localStorage         *)

\* a participant as the roster and the storage hold it
Person(id, name, type) == [t |-> "participant", id |-> id, name |-> name, type |-> type]

Permanent == Str(<<"permanent">>)
Temporary == Str(<<"temporary">>)

\* JSON.stringify(value): the text that parses back to the value
JSONstringify(value) == JsonOf(value)

\* list.filter(keep) over the selected positions
RECURSIVE FilterSeq(_, _)
FilterSeq(list, keep) ==
    IF list = <<>> THEN <<>>
    ELSE (IF keep[1] THEN <<Head(list)>> ELSE <<>>)
         \o FilterSeq(Tail(list), Tail(keep))

\* line 19: participants.filter(p => p && p.type === "permanent")
permanentOnly(list) ==
    FilterSeq(list, [k \in 1..Len(list) |->
                        Truthy(list[k]) /\ Field(list[k], "type") = Permanent])

\* lines 9-47: the item after savePermanentParticipants(participants)
savePermanentParticipants(participants_, item) ==
    IF ~IsArray(participants_) \/ Len(participants_.items) = 0 THEN item
    ELSE IF Len(permanentOnly(participants_.items)) = 0 THEN item
    ELSE JSONstringify(Arr(permanentOnly(participants_.items)))

\* lines 72-82: the filter of loadPermanentParticipants
validParticipants(list) ==
    FilterSeq(list, [k \in 1..Len(list) |->
                        /\ Truthy(list[k])
                        /\ list[k].t = "participant"
                        /\ Field(list[k], "type") = Permanent
                        /\ Truthy(Field(list[k], "name"))
                        /\ Truthy(Field(list[k], "id"))])

\* lines 49-95: what loadPermanentParticipants() returns and the item it leaves
loadPermanentParticipants(item) ==
    IF ~Truthy(item) THEN [result |-> <<>>, item |-> item]
    ELSE LET participants_ == JSONparse(item)
         IN  IF IsThrew(participants_) THEN [result |-> <<>>, item |-> Null]
             ELSE IF ~IsArray(participants_) THEN [result |-> <<>>, item |-> Null]
             ELSE [result |-> validParticipants(participants_.items), item |-> item]

MaxSaved == 2
MaxSaves == 2

\* participants: permanent, temporary, permanent without a name, permanent
\* without an id, and null in place of one
P1 == Person(Str(<<"1">>), Str(<<"Ivan">>), Permanent)
P2 == Person(Str(<<"2">>), Str(<<"Petr">>), Permanent)
T3 == Person(Str(<<"3">>), Str(<<"Guest">>), Temporary)
People ==
    { P1, P2, T3,
      Person(Str(<<"4">>), Str(<<>>), Permanent),
      Person(Undefined, Str(<<"Anna">>), Permanent),
      Null }
PeopleLists == { Arr(l) : l \in SeqsUpTo(People, MaxSaved) }

\* what the item can hold before the first call: nothing, lists saved
\* earlier, a text that is not JSON, JSON that is not a list
EarlierItems ==
    { Null, JSONstringify(Arr(<<P1>>)), JSONstringify(Arr(<<P2, T3>>)),
      BrokenJson("x"), JSONstringify(Str(<<"x">>)) }

InitStorage ==
    /\ comp = "storage"
    /\ storage \in EarlierItems
    /\ saved = NotSaved
    /\ loaded = NotLoaded
    /\ TextIdle
    /\ FormIdle
    /\ ViewerIdle
    /\ NormIdle
    /\ DocIdle
    /\ FormatIdle
    /\ InlineIdle
    /\ SheetIdle
    /\ DashIdle

\* savePermanentParticipants(P) is called
SavePermanentParticipants ==
    /\ comp = "storage"
    /\ \/ saved = NotSaved
       \/ saved # NotSaved /\ saved.count < MaxSaves
    /\ \E P \in PeopleLists :
           /\ storage' = savePermanentParticipants(P, storage)
           /\ saved' = [t |-> "saved", list |-> P,
                        count |-> IF saved = NotSaved THEN 1 ELSE saved.count + 1]
    /\ loaded' = NotLoaded
    /\ UNCHANGED <<comp, transcript, mapping>>
    /\ UNCHANGED annotVars
    /\ UNCHANGED labelVars
    /\ UNCHANGED formVars
    /\ UNCHANGED viewerVars
    /\ UNCHANGED normVars
    /\ UNCHANGED docVars
    /\ UNCHANGED formatVars
    /\ UNCHANGED inlineVars
    /\ UNCHANGED sheetVars
    /\ UNCHANGED dashVars

\* loadPermanentParticipants() is called
LoadPermanentParticipants ==
    /\ comp = "storage"
    /\ loaded = NotLoaded
    /\ loaded' = [t |-> "loaded", result |-> loadPermanentParticipants(storage).result]
    /\ storage' = loadPermanentParticipants(storage).item
    /\ UNCHANGED saved
    /\ UNCHANGED <<comp, transcript, mapping>>
    /\ UNCHANGED annotVars
    /\ UNCHANGED labelVars
    /\ UNCHANGED formVars
    /\ UNCHANGED viewerVars
    /\ UNCHANGED normVars
    /\ UNCHANGED docVars
    /\ UNCHANGED formatVars
    /\ UNCHANGED inlineVars
    /\ UNCHANGED sheetVars
    /\ UNCHANGED dashVars

NextStorage ==
    \/ SavePermanentParticipants
    \/ LoadPermanentParticipants

SpecStorage == InitStorage /\ [][NextStorage]_vars

----------------------------------------------------------------------------
(* Claims about the storage of permanent participants *)

\* the participants of a list whose type is permanent and that have a name
\* and an id, in the order of the list
PermanentOf(P) ==
    IF ~IsArray(P) THEN <<>>
    ELSE FilterSeq(P.items, [k \in 1..Len(P.items) |->
             /\ ~IsNullish(P.items[k])
             /\ P.items[k].type = Permanent
             /\ Truthy(P.items[k].name)
             /\ Truthy(P.items[k].id)])

\* C29: a load that follows savePermanentParticipants(P) returns exactly the
\* permanent participants of P, whatever the item held before.
C29_LoadReturnsSaved ==
    [][ (LoadPermanentParticipants /\ saved # NotSaved) =>
            loaded'.result = PermanentOf(saved.list) ]_vars

----------------------------------------------------------------------------
(* FileUploader (FileUploader.tsx) inside the Dashboard page flow            *)
(* (part_002, lines 385-775)                                                  *)

Unmounted == [mounted |-> FALSE]
NotSettled == [t |-> "none"]

\* typeof v === 'object' of a value that is not null
IsObject(v) == v.t \notin {"undefined", "null", "string", "number", "boolean"}

\* a File with its name
File(name) == [t |-> "file", name |-> name]

\* the body of an answer of POST /protocols/submit
Reply(success, text, message) ==
    [t |-> "reply", success |-> success, transcript |-> text, error |-> message]
\* a body without the field success
ReplyWithoutSuccess(text) == [t |-> "reply", transcript |-> text]

\* the messages of FileUploader
FormatMsg == "Nevernyi format otveta ot servera"
NoSuccessMsg == "Nevernyi format otveta: otsutstvuet pole success"
TranscribeMsg == "Oshibka pri transkribatsii audio"
NotTrueMsg == "Nevernyi format otveta: success ne raven true"
EmptyTranscriptMsg == "Stenogramma pusta. Poprobuite zagruzit fail snova."
FileTypeMsg == "Podderzhivaemye formaty: MP3, WAV, M4A"
ServerMsg == "Oshibka servera: 500"
ProcessingMsg == "Oshibka pri obrabotke protokola"
TrimMsg == "response.transcript.trim is not a function"
SuccessOfNullMsg == "Cannot read properties of null (reading success)"

\* an Error thrown with a message
Rejected(message) == [t |-> "threw", message |-> message]

\* part_002, lines 76-144: what submitProtocol resolves to, or the Error it
\* rejects with; answer.ok is response.ok, answer.detail the detail of the
\* error body and answer.data the parsed body
submitProtocol(answer) ==
    IF ~answer.ok THEN Rejected(answer.detail)
    ELSE LET data == answer.data
         IN  IF ~Truthy(data) \/ ~IsObject(data) THEN Rejected(FormatMsg)
             ELSE IF data.t = "reply" /\ "success" \in DOMAIN data
                     /\ data.success = Bool(TRUE)
             THEN [data EXCEPT !.error = Undefined]
             ELSE data

\* lines 31-48: the state of a FileUploader once mounted
MountedUploader ==
    [mounted |-> TRUE, selectedFile |-> Null, isUploading |-> FALSE,
     isProcessing |-> FALSE, error |-> "", uploadSuccess |-> FALSE,
     uploadSuccessRef |-> FALSE]

\* lines 51-58: setErrorSafe, where closed is the uploadSuccess of the render
\* the running handler was created in
setErrorSafe(up, closed, errorMessage) ==
    IF up.uploadSuccessRef \/ closed THEN up
    ELSE [up EXCEPT !.error = errorMessage]

\* lines 276-317: the catch of handleUpload for an Error with this message
uploadCatch(up, closed, message) ==
    LET off == [up EXCEPT !.isUploading = FALSE, !.isProcessing = FALSE]
    IN  IF message = ProcessingMsg /\ (off.uploadSuccessRef \/ closed) THEN off
        ELSE [setErrorSafe(off, closed, message)
                 EXCEPT !.uploadSuccess = FALSE, !.uploadSuccessRef = FALSE]

\* line 214: !response.transcript || response.transcript.trim().length === 0
\* is "missing" or "present", and "threw" when the value has no trim
transcriptCheck(response) ==
    LET text == Field(response, "transcript")
    IN  IF ~Truthy(text) THEN "missing"
        ELSE IF text.t # "string" THEN "threw"
        ELSE IF Trim(text.s) = <<>> THEN "missing"
        ELSE "present"

\* lines 142-275: handleUpload after submitProtocol has settled with
\* response; line 148 reads response.success before line 152 tests the
\* response. Gives the state of the uploader and whether onUpload is called;
\* handleFileUpload (part_002, lines 477-521) catches what it throws, so the
\* catch of lines 262-275 is not entered
afterSubmit(up, closed, response) ==
    IF IsThrew(response)
    THEN [uploader |-> uploadCatch(up, closed, response.message), onUpload |-> FALSE]
    ELSE
    LET received == [up EXCEPT !.isUploading = FALSE]
    IN  IF IsNullish(response)
        THEN [uploader |-> uploadCatch(received, closed, SuccessOfNullMsg),
              onUpload |-> FALSE]
        ELSE IF ~Truthy(response) \/ ~IsObject(response)
        THEN [uploader |-> setErrorSafe(received, closed, FormatMsg), onUpload |-> FALSE]
        ELSE IF "success" \notin DOMAIN response
        THEN [uploader |-> setErrorSafe(received, closed, NoSuccessMsg), onUpload |-> FALSE]
        ELSE IF response.success # Bool(TRUE)
        THEN LET message == IF ~Truthy(response.success)
                            THEN (IF Truthy(Field(response, "error"))
                                  THEN ServerMsg ELSE TranscribeMsg)
                            ELSE NotTrueMsg
             IN  [uploader |->
                      [setErrorSafe(received, closed, message)
                          EXCEPT !.isProcessing = FALSE, !.uploadSuccess = FALSE,
                                 !.uploadSuccessRef = FALSE],
                  onUpload |-> FALSE]
        ELSE
        LET succeeded == [received EXCEPT !.error = "", !.uploadSuccess = TRUE,
                                          !.uploadSuccessRef = TRUE]
            check == transcriptCheck(response)
        IN  IF check = "threw"
            THEN [uploader |-> uploadCatch(succeeded, closed, TrimMsg), onUpload |-> FALSE]
            ELSE IF check = "missing"
            THEN [uploader |->
                      [setErrorSafe(succeeded, closed, EmptyTranscriptMsg)
                          EXCEPT !.isProcessing = FALSE, !.isUploading = FALSE,
                                 !.uploadSuccess = FALSE, !.uploadSuccessRef = FALSE],
                  onUpload |-> FALSE]
            ELSE [uploader |->
                      [succeeded EXCEPT !.isProcessing = FALSE, !.isUploading = FALSE,
                                        !.uploadSuccess = TRUE, !.uploadSuccessRef = TRUE,
                                        !.error = ""],
                  onUpload |-> TRUE]

\* lines 422-427: the error block is rendered
errorShown(up) ==
    /\ up.error # ""
    /\ ~up.isUploading
    /\ ~up.isProcessing
    /\ ~up.uploadSuccess

----------------------------------------------------------------------------
(* Dashboard (part_002, lines 385-775) with the FileUploader and the         *)
(* SpeakerMapping it renders                                                  *)

MaxUploads == 2
MaxGenerations == 1
MaxDashRoster == 2

ProtocolType == Str(<<"standard-meeting">>)
AudioFile == File("meeting.mp3")

\* the answers of POST /protocols/submit
Answers ==
    { [ok |-> FALSE, detail |-> m, data |-> Undefined] : m \in {ServerMsg, ProcessingMsg} }
    \cup { [ok |-> TRUE, detail |-> "", data |-> d] :
             d \in { Null, Arr(<<>>), ReplyWithoutSuccess(Str(<<"Spiker">>)),
                     Reply(Bool(FALSE), Undefined, Undefined),
                     Reply(Bool(FALSE), Undefined, Str(<<"busy">>)),
                     Reply(Str(<<"yes">>), Str(<<"Spiker">>), Undefined),
                     Reply(Bool(TRUE), Undefined, Undefined),
                     Reply(Bool(TRUE), Str(<<" ">>), Undefined),
                     Reply(Bool(TRUE), Num(1), Undefined),
                     Reply(Bool(TRUE), Str(<<"Spiker">>), Str(<<"busy">>)) } }

\* the protocol of a completed generation response
GeneratedProtocol == [EmptyResponse EXCEPT !.content = BrokenJson("x")]

\* lines 741, 753, 766: the conditions under which the main area renders
\* FileUploader, SpeakerMapping and ProtocolViewer
showsUploader(page, type) == page = "upload-file" /\ Truthy(type)
showsMapping(page, type, file) == page = "map-speakers" /\ Truthy(type) /\ Truthy(file)
showsViewer(page, result) == page = "view-result" /\ Truthy(result)

\* the invocations of an unmounted component go on without it
Orphaned(invocations) ==
    [k \in DOMAIN invocations |-> [invocations[k] EXCEPT !.orphan = TRUE]]

RemoveAt(s, k) == [j \in 1..(Len(s) - 1) |-> IF j < k THEN s[j] ELSE s[j + 1]]

\* SpeakerMapping.tsx, lines 37-68: the state of a SpeakerMapping mounted with
\* the prop participants, and the item loadPermanentParticipants leaves
MountedMapping(initialParticipants, item) ==
    [state |-> [mounted |-> TRUE,
                participants |-> IF Len(initialParticipants) > 0 THEN initialParticipants
                                 ELSE loadPermanentParticipants(item).result,
                submitting |-> FALSE, error |-> ""],
     item |-> IF Len(initialParticipants) > 0 THEN item
              ELSE loadPermanentParticipants(item).item]

\* the render that follows the state updates of a handler: the children are
\* mounted and unmounted by the conditions of lines 741-771, given the
\* children, the invocations and the item as the handler left them
Rerender(up, ups, sm, gens, item) ==
    LET withUploader == showsUploader(currentPage', selectedProtocolType')
        withMapping == showsMapping(currentPage', selectedProtocolType', uploadedFile')
        mounting == MountedMapping(dashParticipants', item)
    IN  /\ uploader' = IF ~withUploader THEN Unmounted
                       ELSE IF up.mounted THEN up ELSE MountedUploader
        /\ uploads' = IF up.mounted /\ ~withUploader THEN Orphaned(ups) ELSE ups
        /\ speakerMapping' = IF ~withMapping THEN Unmounted
                             ELSE IF sm.mounted THEN sm ELSE mounting.state
        /\ generations' = IF sm.mounted /\ ~withMapping THEN Orphaned(gens) ELSE gens
        /\ storage' = IF withMapping /\ ~sm.mounted THEN mounting.item ELSE item

\* what the other specifications exercise stays idle
DashFrame ==
    /\ UNCHANGED <<comp, transcript, mapping>>
    /\ UNCHANGED annotVars
    /\ UNCHANGED labelVars
    /\ UNCHANGED formVars
    /\ UNCHANGED viewerVars
    /\ UNCHANGED <<protocolData, built>>
    /\ UNCHANGED docVars
    /\ UNCHANGED formatVars
    /\ UNCHANGED inlineVars
    /\ UNCHANGED sheetVars
    /\ UNCHANGED <<saved, loaded>>

InitDashboard ==
    /\ comp = "dashboard"
    /\ DashIdle
    /\ NormIdle
    /\ storage \in {Null, JSONstringify(Arr(<<P1>>))}
    /\ saved = NotSaved
    /\ loaded = NotLoaded
    /\ TextIdle
    /\ FormIdle
    /\ ViewerIdle
    /\ DocIdle
    /\ FormatIdle
    /\ InlineIdle
    /\ SheetIdle

\* lines 442-459, called by the ProtocolTypeSelector of lines 731 and 738
HandleProtocolTypeSelect ==
    /\ comp = "dashboard"
    /\ currentPage \in {"protocol-list", "select-type"}
    /\ LET load == loadPermanentParticipants(storage)
       IN  /\ selectedProtocolType' = ProtocolType
           /\ dashParticipants' = IF Len(dashParticipants) = 0 /\ Len(load.result) > 0
                                  THEN load.result ELSE dashParticipants
           /\ currentPage' = "upload-file"
           /\ UNCHANGED <<uploadedFile, protocolResult>>
           /\ settled' = NotSettled
           /\ Rerender(uploader, uploads, speakerMapping, generations,
                       IF Len(dashParticipants) = 0 THEN load.item ELSE storage)
    /\ DashFrame

\* lines 605-635, called by the ProtocolListTable of line 724; the selector of
\* line 730 is rendered, so the handler scrolls to it
HandleCreateNew ==
    /\ comp = "dashboard"
    /\ currentPage = "protocol-list"
    /\ LET load == loadPermanentParticipants(storage)
       IN  /\ dashParticipants' = load.result
           /\ UNCHANGED <<currentPage, selectedProtocolType, uploadedFile, protocolResult>>
           /\ settled' = NotSettled
           /\ Rerender(uploader, uploads, speakerMapping, generations, load.item)
    /\ DashFrame

\* lines 596-603, called by the header button of lines 695-704, by the logo
\* of lines 676-680 and by the onBack of ProtocolViewer (lines 656-659)
HandleBackToList ==
    /\ comp = "dashboard"
    /\ currentPage # "protocol-list"
    /\ selectedProtocolType' = Null
    /\ dashParticipants' = <<>>
    /\ uploadedFile' = Null
    /\ protocolResult' = Null
    /\ currentPage' = "protocol-list"
    /\ settled' = NotSettled
    /\ Rerender(uploader, uploads, speakerMapping, generations, storage)
    /\ DashFrame

\* lines 644-648, the onBack of FileUploader, whose button is disabled while
\* isUploading (FileUploader.tsx, lines 334-338)
HandleBackToParticipants ==
    /\ comp = "dashboard"
    /\ uploader.mounted
    /\ ~uploader.isUploading
    /\ uploadedFile' = Null
    /\ selectedProtocolType' = Null
    /\ currentPage' = "select-type"
    /\ UNCHANGED <<dashParticipants, protocolResult>>
    /\ settled' = NotSettled
    /\ Rerender(uploader, uploads, speakerMapping, generations, storage)
    /\ DashFrame

\* lines 524-526, the onBack of SpeakerMapping, whose buttons are disabled
\* while submitting (SpeakerMapping.tsx, lines 349-351 and 637-638)
HandleMappingBack ==
    /\ comp = "dashboard"
    /\ speakerMapping.mounted
    /\ ~speakerMapping.submitting
    /\ currentPage' = "upload-file"
    /\ UNCHANGED <<selectedProtocolType, uploadedFile, dashParticipants, protocolResult>>
    /\ settled' = NotSettled
    /\ Rerender(uploader, uploads, speakerMapping, generations, storage)
    /\ DashFrame

\* FileUploader.tsx, lines 63-110: handleDrop or handleChange with a file
\* that validateFile accepts or rejects
SelectFile ==
    /\ comp = "dashboard"
    /\ uploader.mounted
    /\ \E valid \in BOOLEAN :
           uploader' = IF valid
                       THEN [uploader EXCEPT !.error = "", !.uploadSuccess = FALSE,
                                             !.uploadSuccessRef = FALSE,
                                             !.selectedFile = AudioFile]
                       ELSE setErrorSafe(uploader, uploader.uploadSuccess, FileTypeMsg)
    /\ settled' = NotSettled
    /\ UNCHANGED <<currentPage, selectedProtocolType, uploadedFile, uploads,
                   speakerMapping, generations, dashParticipants, protocolResult, storage>>
    /\ DashFrame

\* FileUploader.tsx, lines 456-462: the button that drops the selected file
ChangeFile ==
    /\ comp = "dashboard"
    /\ uploader.mounted
    /\ Truthy(uploader.selectedFile)
    /\ ~uploader.isUploading
    /\ uploader' = [uploader EXCEPT !.selectedFile = Null, !.error = "",
                                    !.uploadSuccess = FALSE]
    /\ settled' = NotSettled
    /\ UNCHANGED <<currentPage, selectedProtocolType, uploadedFile, uploads,
                   speakerMapping, generations, dashParticipants, protocolResult, storage>>
    /\ DashFrame

\* FileUploader.tsx, lines 112-139: handleUpload up to the call of
\* submitProtocol; its button is disabled while isUploading (lines 467-469)
HandleUpload ==
    /\ comp = "dashboard"
    /\ uploader.mounted
    /\ Truthy(uploader.selectedFile)
    /\ ~uploader.isUploading
    /\ Len(uploads) < MaxUploads
    /\ uploader' = [uploader EXCEPT !.error = "", !.uploadSuccess = FALSE,
                                    !.isUploading = TRUE, !.isProcessing = TRUE]
    /\ uploads' = Append(uploads, [file |-> uploader.selectedFile,
                                   closed |-> uploader.uploadSuccess,
                                   orphan |-> FALSE])
    /\ settled' = NotSettled
    /\ UNCHANGED <<currentPage, selectedProtocolType, uploadedFile,
                   speakerMapping, generations, dashParticipants, protocolResult, storage>>
    /\ DashFrame

\* FileUploader.tsx, lines 142-317: submitProtocol settles and handleUpload
\* runs to its end; onUpload is handleFileUpload (part_002, lines 462-522),
\* which sets the file and the page. The state updates of an unmounted
\* FileUploader are dropped, its call of onUpload is not
UploadSettles ==
    /\ comp = "dashboard"
    /\ \E k \in DOMAIN uploads, answer \in Answers :
        LET invocation == uploads[k]
            out == afterSubmit(IF invocation.orphan THEN MountedUploader ELSE uploader,
                               invocation.closed, submitProtocol(answer))
        IN  /\ IF out.onUpload
               THEN /\ uploadedFile' = invocation.file
                    /\ currentPage' = "map-speakers"
               ELSE UNCHANGED <<uploadedFile, currentPage>>
            /\ UNCHANGED <<selectedProtocolType, dashParticipants, protocolResult>>
            /\ settled' = [t |-> "settled", answer |-> answer, orphan |-> invocation.orphan,
                           onUpload |-> out.onUpload, uploader |-> out.uploader]
            /\ Rerender(IF invocation.orphan THEN uploader ELSE out.uploader,
                        RemoveAt(uploads, k), speakerMapping, generations, storage)
    /\ DashFrame

\* SpeakerMapping.tsx, lines 98-122: handleSave adds a participant
AddParticipant ==
    /\ comp = "dashboard"
    /\ speakerMapping.mounted
    /\ Len(speakerMapping.participants) < MaxDashRoster
    /\ \E p \in {P2, T3} :
           speakerMapping' = [speakerMapping EXCEPT !.participants = Append(@, p)]
    /\ settled' = NotSettled
    /\ UNCHANGED <<currentPage, selectedProtocolType, uploadedFile, uploader, uploads,
                   generations, dashParticipants, protocolResult, storage>>
    /\ DashFrame

\* SpeakerMapping.tsx, lines 305-326: onGenerate up to the call of
\* generateProtocolFromTranscript; the button is disabled while submitting,
\* with an empty roster and with an unmapped label (line 645); the labels are
\* taken as mapped. The invocation keeps the props of its render: onGenerated
\* is the handleProtocolGenerated that closed over participants
Generate ==
    /\ comp = "dashboard"
    /\ speakerMapping.mounted
    /\ ~speakerMapping.submitting
    /\ Len(speakerMapping.participants) > 0
    /\ Len(generations) < MaxGenerations
    /\ speakerMapping' = [speakerMapping EXCEPT !.submitting = TRUE, !.error = ""]
    /\ generations' = Append(generations,
                          [participantsUsed |-> speakerMapping.participants,
                           participants |-> dashParticipants,
                           orphan |-> FALSE])
    /\ settled' = NotSettled
    /\ UNCHANGED <<currentPage, selectedProtocolType, uploadedFile, uploader, uploads,
                   dashParticipants, protocolResult, storage>>
    /\ DashFrame

\* SpeakerMapping.tsx, lines 327-341: the generation request settles; when it
\* completed, onGenerated runs handleProtocolGenerated (part_002, lines
\* 528-594) with the roster of the invocation
GenerationSettles ==
    /\ comp = "dashboard"
    /\ \E k \in DOMAIN generations, completed \in BOOLEAN :
        LET invocation == generations[k]
            participantsToSave == IF Len(invocation.participantsUsed) > 0
                                  THEN invocation.participantsUsed
                                  ELSE invocation.participants
            result == ProtocolResult(GeneratedProtocol, invocation.participants)
            done == completed /\ ~IsThrew(result)
            ended == IF invocation.orphan THEN speakerMapping
                     ELSE [speakerMapping EXCEPT
                              !.submitting = FALSE,
                              !.error = IF done THEN @ ELSE GenerationMsg]
        IN  /\ IF done
               THEN /\ protocolResult' = result
                    /\ currentPage' = "view-result"
               ELSE UNCHANGED <<protocolResult, currentPage>>
            /\ UNCHANGED <<selectedProtocolType, uploadedFile, dashParticipants>>
            /\ settled' = NotSettled
            /\ Rerender(uploader, uploads, ended, RemoveAt(generations, k),
                        IF completed /\ Len(participantsToSave) > 0
                        THEN savePermanentParticipants(Arr(participantsToSave), storage)
                        ELSE storage)
    /\ DashFrame

NextDashboard ==
    \/ HandleProtocolTypeSelect
    \/ HandleCreateNew
    \/ HandleBackToList
    \/ HandleBackToParticipants
    \/ HandleMappingBack
    \/ SelectFile
    \/ ChangeFile
    \/ HandleUpload
    \/ UploadSettles
    \/ AddParticipant
    \/ Generate
    \/ GenerationSettles

SpecDashboard == InitDashboard /\ [][NextDashboard]_vars

\* the requests settle: fetch resolves or rejects, and the continuations of
\* handleUpload and of onGenerate run when it does
SpecDashboardFair ==
    /\ InitDashboard
    /\ [][NextDashboard]_vars
    /\ WF_vars(UploadSettles)
    /\ WF_vars(GenerationSettles)

----------------------------------------------------------------------------
(* Claims about the Dashboard page flow *)

\* C24: in every reachable Dashboard state the current page has what it needs
\* to render: upload-file has a protocol type, map-speakers has a protocol
\* type and an uploaded file, view-result has a protocol result
C24_PageHasWhatItNeeds ==
    /\ currentPage = "upload-file" => Truthy(selectedProtocolType)
    /\ currentPage = "map-speakers" =>
           Truthy(selectedProtocolType) /\ Truthy(uploadedFile)
    /\ currentPage = "view-result" => Truthy(protocolResult)

\* C27: after handleBackToList has left the speaker-mapping step with a
\* generation request in flight, the late response changes nothing: the page
\* stays protocol-list, protocolResult stays null and the stored permanent
\* participants are not rewritten
C27_LateGenerationChangesNothing ==
    [][ ( /\ GenerationSettles
          /\ \A k \in DOMAIN generations : generations[k].orphan
          /\ currentPage = "protocol-list"
          /\ protocolResult = Null )
        => ( /\ currentPage' = "protocol-list"
             /\ protocolResult' = Null
             /\ storage' = storage ) ]_vars

\* the answer has success = true and an empty or blank transcript
BlankTranscriptAnswer(answer) ==
    /\ answer.ok
    /\ answer.data.t = "reply"
    /\ "success" \in DOMAIN answer.data
    /\ answer.data.success = Bool(TRUE)
    /\ \/ answer.data.transcript = Undefined
       \/ /\ answer.data.transcript.t = "string"
          /\ \A k \in DOMAIN answer.data.transcript.s : answer.data.transcript.s[k] = " "

\* C25: when the server answers success = true with an empty or blank
\* transcript, handleUpload of the mounted FileUploader does not call onUpload
\* and ends with the error visible: error is not empty and isUploading,
\* isProcessing and uploadSuccess are false
C25_EmptyTranscriptErrorShown ==
    (settled # NotSettled /\ ~settled.orphan /\ BlankTranscriptAnswer(settled.answer))
        => ( /\ ~settled.onUpload
             /\ settled.uploader.error # ""
             /\ ~settled.uploader.isUploading
             /\ ~settled.uploader.isProcessing
             /\ ~settled.uploader.uploadSuccess )

\* handleUpload of the mounted FileUploader has been invoked and not ended
Uploading == uploader.mounted /\ uploader.isUploading

\* the FileUploader is gone, or shows neither the upload nor the processing
UploadEnded == ~uploader.mounted \/ (~uploader.isUploading /\ ~uploader.isProcessing)

\* C26: every handleUpload invocation eventually ends with isUploading = false
\* and isProcessing = false, whatever submitProtocol settles with
C26_UploadEndsIdle == Uploading ~> UploadEnded

----------------------------------------------------------------------------
(* Claims about the roster of SpeakerMapping and the names of its mapping *)

\* the name is the name of a participant of the roster
CurrentName(name) == \E p \in 1..Len(participants) : participants[p].name = name

\* every non-empty value of the mapping is a current name
MappingCurrent ==
    \A k \in 1..Len(mapping) : mapping[k][2] # <<>> => CurrentName(mapping[k][2])

\* the label has an entry whose value is a current name
MappedToCurrent(label) ==
    \E k \in 1..Len(mapping) : mapping[k][1] = label /\ CurrentName(mapping[k][2])

\* C28: after any sequence of additions, renames and deletions of participants
\* and of mapping changes, every non-empty mapping value is the name of a
\* participant of the roster, and a generation request is sent only when every
\* extracted label is mapped to a current participant
C28_MappingNamesCurrent ==
    /\ [](comp = "mapping" => MappingCurrent)
    /\ [][ Len(requests') > Len(requests) =>
               \A k \in 1..Len(labelsResult.labels) :
                   MappedToCurrent(labelsResult.labels[k]) ]_vars

\* a request was sent with a roster whose first participant had been renamed
\* to Petr, and a label is mapped to that name
C28_Witness ==
    /\ comp = "mapping"
    /\ Len(requests) > 0
    /\ \E p \in 1..Len(requests[1].participants) :
           /\ requests[1].participants[p].id = 1
           /\ requests[1].participants[p].name = <<"Petr">>
    /\ \E k \in 1..Len(mapping) : mapping[k][2] = <<"Petr">>

----------------------------------------------------------------------------
(* Claims about the order of the entries of applyMappingToTranscript *)

\* the entries in the opposite order
Reversed(entries) == [k \in 1..Len(entries) |-> entries[Len(entries) + 1 - k]]

\* the lines of the text after the first n entries of the mapping
LinesAfter(n) == SplitLines(applyMappingToTranscript(transcript, SubSeq(mapping, 1, n)))

\* C30: the result of applyMappingToTranscript does not depend on the order of
\* the entries, and substitutions do not cascade: a line rewritten by one
\* entry is not rewritten again by a later entry
C30_OrderIndependentNoCascade ==
    Applied =>
        /\ applyMappingToTranscript(transcript, Reversed(mapping)) = mappedTranscript
        /\ \A e \in 1..Len(mapping) : \A k \in 1..Len(LinesAfter(0)) :
               ( /\ Len(LinesAfter(e)) = Len(LinesAfter(0))
                 /\ Len(LinesAfter(e - 1)) = Len(LinesAfter(0))
                 /\ Len(SplitLines(mappedTranscript)) = Len(LinesAfter(0))
                 /\ LinesAfter(e)[k] # LinesAfter(e - 1)[k] )
               => SplitLines(mappedTranscript)[k] = LinesAfter(e)[k]

============================================================================
